---------------------------- MODULE Spec2Model ----------------------------
(***************************************************************************)
(* Model of the hyper-ray-tracer rendering engine.                         *)
(*                                                                         *)
(* Part 1: the tile scheduler of src/src/application.rs: handle_resize and *)
(* render dispatch one task per tile; every task computes its tile, bumps  *)
(* the shared tile_counter (a load followed by a store) and sends the tile *)
(* on a bounded channel; the loop of run() compares the counter with the   *)
(* tile count, processes window events and polls the channel once.         *)
(*                                                                         *)
(* The tasks are tokio tasks: they run in parallel with each other and     *)
(* with run(), which never yields to the runtime, so every shared access   *)
(* (each atomic load, each atomic store, each channel operation) is one    *)
(* step of the model and the steps of different tasks interleave freely.   *)
(*                                                                         *)
(* Part 2: the scene queried by ray_color: Rect (hittable/rect.rs), Aabb   *)
(* (aabb.rs), BvhNode (hittable/bvh_node.rs) and List (hittable/list.rs),  *)
(* with BvhNode::hit and List::hit evaluated on the same objects and ray.  *)
(***************************************************************************)
EXTENDS Integers, Sequences, FiniteSets, TLC

(***************************************************************************)
(* Bounds of the model.                                                    *)
(***************************************************************************)
\* Total number of tile tasks spawned over a run (initial batch + resizes).
MaxTasks == 3
\* Number of FramebufferSize events handled over a run.
MaxResizes == 1
\* Number of tile tasks that may panic over a run.
MaxPanics == 1
\* Frame widths, heights and tile sizes of the tile-geometry specification.
MaxWidth == 11
MaxHeight == 4
MaxTileSize == 4

\* Capacity of the tile channel.  The code creates mpsc::channel(32); the
\* model scales the capacity down so that a full channel (more tiles
\* produced than the channel holds) occurs within MaxTasks tasks.
ChannelCapacity == 2

\* The tile size of the scheduler specification (Arguments::tile_size; any
\* positive u32 in the code) and the frame sizes the window may take.
SchedTileSize == 3
FrameSizes == {<<3, 3>>, <<5, 3>>, <<7, 3>>, <<10, 3>>}

(***************************************************************************)
(* f32 arithmetic on the values the tile geometry needs.  A non-negative   *)
(* f32 is a pair [n, k] standing for n / 2^k, n having at most 24          *)
(* significant bits (IEEE-754 binary32, round to nearest, ties to even).   *)
(***************************************************************************)
F32Bits == 24

Pow2(k) == 2 ^ k

\* Number of significant bits of n (0 for 0), n below 2^30.
BitLen(n) == CHOOSE b \in 0 .. 30 : n < Pow2(b) /\ (b = 0 \/ Pow2(b - 1) <= n)

\* n / d rounded to the nearest integer, ties to even.
RoundHalfEven(n, d) ==
    LET q == n \div d
        r == n % d
    IN  IF 2 * r < d THEN q
        ELSE IF 2 * r > d THEN q + 1
        ELSE IF q % 2 = 0 THEN q ELSE q + 1

\* The f32 nearest to n / 2^k.
F32Round(n, k) ==
    LET extra == BitLen(n) - F32Bits
    IN  IF extra <= 0 THEN [n |-> n, k |-> k]
        ELSE [n |-> RoundHalfEven(n, Pow2(extra)) * Pow2(extra), k |-> k]

\* a as f32 / b as f32 for integers a >= 0, b >= 1 below 2^24: the quotient
\* is scaled so that its mantissa has F32Bits bits, then rounded.
\* The least k with a * 2^k / b >= 2^(F32Bits - 1).
Scaled(a, b, k) == (a * Pow2(k)) \div b >= Pow2(F32Bits - 1)

DivScale(a, b) ==
    CHOOSE k \in 0 .. F32Bits + 6 : Scaled(a, b, k) /\ \A j \in 0 .. k - 1 : ~Scaled(a, b, j)

F32Div(a, b) ==
    IF a = 0 THEN [n |-> 0, k |-> 0]
    ELSE LET k == DivScale(a, b)
         IN  [n |-> RoundHalfEven(a * Pow2(k), b), k |-> k]

F32Floor(f) == f.n \div Pow2(f.k)

F32Ceil(f) == IF f.n % Pow2(f.k) = 0 THEN f.n \div Pow2(f.k) ELSE (f.n \div Pow2(f.k)) + 1

\* f - floor(f): exact in f32 (the difference has no more bits than f).
F32Fract(f) == [n |-> f.n % Pow2(f.k), k |-> f.k]

\* f * (c as f32), rounded.
F32MulInt(f, c) == F32Round(f.n * c, f.k)

\* `as u32` of a non-negative f32: truncation.
F32AsU32(f) == f.n \div Pow2(f.k)

(***************************************************************************)
(* Tile geometry: handle_resize's tile counts and render's tile sizes.     *)
(***************************************************************************)
\* (size as f32 / tile_size as f32).ceil() as u32
TileCount(size, tile_size) == F32Ceil(F32Div(size, tile_size))

\* The remainder computed from the fractional part of the f32 quotient.
FractExtent(size, tile_size) ==
    F32AsU32(F32MulInt(F32Fract(F32Div(size, tile_size)), tile_size))

\* tile_width / tile_height of tile number i (0-based) of count tiles.
TileExtent(size, tile_size, i, count) ==
    IF size % tile_size # 0 /\ i = count - 1
    THEN FractExtent(size, tile_size)
    ELSE tile_size

(***************************************************************************)
(* State of the scheduler (fields of Application and of the tasks).        *)
(***************************************************************************)
VARIABLES
    texture_size,   \* <<width, height>> of the display texture
    tile_size,      \* Arguments::tile_size
    tile_x_count,   \* tiles per row of the current grid
    tile_y_count,   \* tiles per column of the current grid
    tile_counter,   \* the shared AtomicU32
    chan,           \* the tile channel (tx, rx): tiles sent and not yet received
    tasks,          \* Vec<JoinHandle>: one record per spawned tile task
    pcMain,         \* position of the loop of run()
    should_close,   \* the window's close flag
    merged,         \* tasks whose tile was uploaded into the current texture
    received,       \* history: tasks whose tile try_recv has returned
    batch,          \* history: number of render() calls so far
    reported,       \* history: "Rendered image" reports since the last render()
    resizes,        \* history: FramebufferSize events handled
    refresh         \* history: the last poll, [queued, taken, changed]

\* The scene a ray is cast into (hittable/, aabb.rs).
VARIABLES
    objects,        \* the Vec of objects handed to BvhNode::new and List::new
    bvh,            \* the BvhNode built from them
    query,          \* [ray, time_min, time_max] of the hit calls
    bvh_hit,        \* Option<HitRecord> of BvhNode::hit
    list_hit,       \* Option<HitRecord> of List::hit
    new_calls,      \* history: calls of BvhNode::new entered so far
    pcScene         \* "idle", "objects", "built", "panicked", "cast", "bvh", "done"

sceneVars == <<objects, bvh, query, bvh_hit, list_hit, new_calls, pcScene>>

\* No scene is involved in the scheduler.
SceneIdle ==
    /\ objects = <<>>
    /\ bvh = <<>>
    /\ query = <<>>
    /\ bvh_hit = <<>>
    /\ list_hit = <<>>
    /\ new_calls = 0
    /\ pcScene = "idle"

\* One pixel of a tile task and the ray_color call of one sample
\* (application.rs, render and ray_color).
VARIABLES
    world,          \* what the scene holds: kind "any", or kind "light" for
                    \* one DiffuseLight of colour emit and nothing else
    background,     \* Application::background
    depth,          \* Application::depth, the depth of the outermost call
    call_depth,     \* the depth argument of the innermost ray_color call
    frames,         \* the suspended ray_color calls: [emitted, attenuation] each
    value,          \* the Vec3 the innermost call returned, <<>> before
    outcomes,       \* history: what hit and scatter gave, call by call
    hits,           \* history: number of world.hit calls
    sample_count,   \* Application::samples
    samples,        \* samples of the pixel taken so far
    sampled,        \* history: the colours ray_color returned for them
    pixel_color,    \* the sum of the samples' colours
    average,        \* pixel_color * scale, <<>> before
    pcPath          \* "idle", "pixel", "call", "return", "done"

pathVars == <<world, background, depth, call_depth, frames, value, outcomes, hits,
              sample_count, samples, sampled, pixel_color, average, pcPath>>

\* No pixel is being computed.
PathIdle ==
    /\ world = [kind |-> "any", emit |-> <<0, 0, 0>>]
    /\ background = <<0, 0, 0>>
    /\ depth = 0
    /\ call_depth = 0
    /\ frames = <<>>
    /\ value = <<>>
    /\ outcomes = <<>>
    /\ hits = 0
    /\ sample_count = 0
    /\ samples = 0
    /\ sampled = <<>>
    /\ pixel_color = <<0, 0, 0>>
    /\ average = <<>>
    /\ pcPath = "idle"

\* Calls of Aabb::surrounding_box and Aabb::hit on their own (aabb.rs).
VARIABLES
    box_a,          \* the first argument of surrounding_box, the receiver of hit
    box_b,          \* the second argument of surrounding_box
    surrounding,    \* the Aabb surrounding_box returned, <<>> before
    probe,          \* [ray, time_min, time_max, wide_min, wide_max] of two hit calls
    probe_hit,      \* [narrow, wide]: what the two calls returned, <<>> before
    pcBox           \* "idle", "pair", "surrounded", "box", "probed"

boxVars == <<box_a, box_b, surrounding, probe, probe_hit, pcBox>>

\* No box is being looked at.
BoxIdle ==
    /\ box_a = <<>>
    /\ box_b = <<>>
    /\ surrounding = <<>>
    /\ probe = <<>>
    /\ probe_hit = <<>>
    /\ pcBox = "idle"

\* One call of Sphere::hit (hittable/sphere.rs).
VARIABLES
    sphere,         \* the Sphere: [center, radius]
    sphere_ray,     \* the ray of the call
    sphere_hit,     \* the Option<HitRecord> it returned, <<>> before
    pcSphere        \* "idle", "call", "done"

sphereVars == <<sphere, sphere_ray, sphere_hit, pcSphere>>

\* No sphere is being looked at.
SphereIdle ==
    /\ sphere = <<>>
    /\ sphere_ray = <<>>
    /\ sphere_hit = <<>>
    /\ pcSphere = "idle"

\* One call of Dielectric::scatter (materials/dielectric.rs).
VARIABLES
    dielectric,     \* index_of_referaction, the fraction [num, den]
    scatter_ray,    \* the incoming ray: [direction, length], length = |direction|
    scatter_hit,    \* the HitRecord: [normal, front_face]
    gen,            \* the value rand.gen() returns, in 1/RandomSteps
    scattered,      \* what scatter returned: [attenuation, direction, branch]
    pcDielectric    \* "idle", "call", "done"

dielectricVars == <<dielectric, scatter_ray, scatter_hit, gen, scattered, pcDielectric>>

\* No dielectric is being looked at.
DielectricIdle ==
    /\ dielectric = <<>>
    /\ scatter_ray = <<>>
    /\ scatter_hit = <<>>
    /\ gen = 0
    /\ scattered = <<>>
    /\ pcDielectric = "idle"

\* Two renders of the same frame and the generators their tile tasks draw
\* from (application.rs, render; rand::thread_rng).
VARIABLES
    rng_seed,       \* per run and worker thread: the seed of the thread's
                    \* generator, 0 while thread_rng was never called on it
    rng_drawn,      \* per run and worker thread: the values drawn so far
    tile_thread,    \* per run and tile: the worker its task ran on, 0 before
    tile_pixels,    \* per run and tile: the random values that fix its pixels
    pcRng           \* "idle", "render"

rngVars == <<rng_seed, rng_drawn, tile_thread, tile_pixels, pcRng>>

\* No render is being compared.
RngIdle ==
    /\ rng_seed = <<>>
    /\ rng_drawn = <<>>
    /\ tile_thread = <<>>
    /\ tile_pixels = <<>>
    /\ pcRng = "idle"

\* One call of Translation::hit and bounding_box or of ConstantMedium::hit
\* around the sphere, of MovingSphere::hit, or of Cuboid::hit
\* (hittable/translation.rs, constant_medium.rs, moving_sphere.rs, cuboid.rs).
VARIABLES
    wrap,           \* the hittable and the call: kind, time_min, time_max and
                    \* the fields of the kind: displacement; hit_distance, the
                    \* value of negative_inverse_density * rand.gen().log(E);
                    \* center_end, time_start, time_end and ray_time; sides
    wrap_hit,       \* the Option<HitRecord> the wrapper returned, <<>> before
    wrap_box,       \* the Aabb its bounding_box returned, <<>> before
    pcWrap          \* "idle", "call", "done"

wrapVars == <<wrap, wrap_hit, wrap_box, pcWrap>>

\* No wrapper is being looked at.
WrapIdle ==
    /\ wrap = <<>>
    /\ wrap_hit = <<>>
    /\ wrap_box = <<>>
    /\ pcWrap = "idle"

\* One call of List::bounding_box (hittable/list.rs).
VARIABLES
    children,       \* what bounding_box of each object of the list returns:
                    \* None or Some(Aabb), in the order of the list
    list_box,       \* the Option<Aabb> List::bounding_box returned, <<>> before
    pcEnvelope      \* "idle", "call", "done"

envelopeVars == <<children, list_box, pcEnvelope>>

\* No list is being looked at.
EnvelopeIdle ==
    /\ children = <<>>
    /\ list_box = <<>>
    /\ pcEnvelope = "idle"

unitVars == <<boxVars, sphereVars, dielectricVars, rngVars, wrapVars, envelopeVars>>

UnitIdle == BoxIdle /\ SphereIdle /\ DielectricIdle /\ RngIdle /\ WrapIdle /\ EnvelopeIdle

restVars == <<pathVars, unitVars>>

RestIdle == PathIdle /\ UnitIdle

vars == <<texture_size, tile_size, tile_x_count, tile_y_count, tile_counter, chan,
          tasks, pcMain, should_close, merged, received, batch, reported, resizes,
          refresh, sceneVars, restVars>>

TaskIds == 1 .. Len(tasks)

\* The tile grid's size: (self.tile_x_count * self.tile_y_count) as u32.
TileTotal == tile_x_count * tile_y_count

\* The tasks render() spawns for a width x height frame, in dispatch order:
\* task i renders tile (i % tile_x_count, i / tile_x_count).  tile_width and
\* tile_height (lines 418-432) depend only on values the task captures when
\* it is spawned, so the record holds them from the start.
SpawnOne(width, height, ts, xc, yc, b, i) ==
    [batch |-> b, x |-> i % xc, y |-> i \div xc,
     tile_width |-> TileExtent(width, ts, i % xc, xc),
     tile_height |-> TileExtent(height, ts, i \div xc, yc),
     pc |-> "spawned", counter |-> 0, abort |-> FALSE]

Spawned(width, height, ts, xc, yc, b) ==
    [i \in 1 .. xc * yc |-> SpawnOne(width, height, ts, xc, yc, b, i - 1)]

\* The Tile a task builds (lines 463-469); `task` stands for its pixel buffer.
TileOf(id) ==
    [x |-> tasks[id].x, y |-> tasks[id].y,
     width |-> tasks[id].tile_width, height |-> tasks[id].tile_height,
     task |-> id]

(***************************************************************************)
(* Application::new: the channel is created, the counter is 0, and         *)
(* handle_resize(window size) dispatches the first batch.                  *)
(***************************************************************************)
Init ==
    \E size \in FrameSizes :
        /\ tile_size = SchedTileSize
        /\ TileCount(size[1], SchedTileSize) * TileCount(size[2], SchedTileSize) <= MaxTasks
        /\ texture_size = size
        /\ tile_x_count = TileCount(size[1], SchedTileSize)
        /\ tile_y_count = TileCount(size[2], SchedTileSize)
        /\ tile_counter = 0
        /\ chan = <<>>
        /\ tasks = Spawned(size[1], size[2], SchedTileSize,
                           TileCount(size[1], SchedTileSize),
                           TileCount(size[2], SchedTileSize), 1)
        /\ pcMain = "check"
        /\ should_close = FALSE
        /\ merged = {}
        /\ received = {}
        /\ batch = 1
        /\ reported = 0
        /\ resizes = 0
        /\ refresh = [queued |-> 0, taken |-> 0, changed |-> FALSE]
        /\ SceneIdle
        /\ RestIdle

(***************************************************************************)
(* A tile task (the async block of render).  The process ends when run()   *)
(* returns (main returns right after it), so no task steps after that.     *)
(***************************************************************************)
Running == pcMain # "exited"

SetPc(id, pc) == [tasks EXCEPT ![id].pc = pc]

\* Lines 418-471: compute the tile, then tile_counter.load(SeqCst).
LoadCounter(id) == [tasks EXCEPT ![id].pc = "loaded", ![id].counter = tile_counter]

TaskLoad(id) ==
    /\ Running
    /\ tasks[id].pc = "spawned"
    /\ tasks' = LoadCounter(id)
    /\ UNCHANGED <<restVars, sceneVars, texture_size, tile_size, tile_x_count, tile_y_count, tile_counter,
                   chan, pcMain, should_close, merged, received, batch, reported,
                   resizes, refresh>>

\* Line 472: tile_counter.store(counter + 1, SeqCst).
StoredValue(id) == tasks[id].counter + 1

TaskStore(id) ==
    /\ Running
    /\ tasks[id].pc = "loaded"
    /\ tile_counter' = StoredValue(id)
    /\ tasks' = SetPc(id, "sending")
    /\ UNCHANGED <<restVars, sceneVars, texture_size, tile_size, tile_x_count, tile_y_count,
                   chan, pcMain, should_close, merged, received, batch, reported,
                   resizes, refresh>>

\* Line 474: tx.send(tile).await completes once the channel has room.
ChanAfterSend(id) == Append(chan, TileOf(id))

TaskSend(id) ==
    /\ Running
    /\ tasks[id].pc = "sending"
    /\ Len(chan) < ChannelCapacity
    /\ chan' = ChanAfterSend(id)
    /\ tasks' = SetPc(id, "done")
    /\ UNCHANGED <<restVars, sceneVars, texture_size, tile_size, tile_x_count, tile_y_count, tile_counter,
                   pcMain, should_close, merged, received, batch, reported,
                   resizes, refresh>>

\* A panic inside the task body before the counter update: tokio catches
\* it, the task ends, nothing else is touched.
Panicked == {id \in TaskIds : tasks[id].pc = "panicked"}

\* A runtime that does not isolate a panic: the unfinished tasks end with it.
PanicTakesDownBatch(id) ==
    [j \in TaskIds |->
        [tasks[j] EXCEPT !.pc = IF j = id THEN "panicked"
                                ELSE IF @ = "done" THEN @ ELSE "cancelled"]]

PanicEffect(id) == SetPc(id, "panicked")

TaskPanic(id) ==
    /\ Running
    /\ tasks[id].pc = "spawned"
    /\ Cardinality(Panicked) < MaxPanics
    /\ tasks' = PanicEffect(id)
    /\ UNCHANGED <<restVars, sceneVars, texture_size, tile_size, tile_x_count, tile_y_count, tile_counter,
                   chan, pcMain, should_close, merged, received, batch, reported,
                   resizes, refresh>>

(***************************************************************************)
(* The loop of run().                                                      *)
(***************************************************************************)
\* Lines 249 and 260-261: the loop condition, then the counter is loaded
\* and compared with the tile count.
FrameComplete == tile_counter = TileTotal

CoordCheck ==
    /\ pcMain = "check"
    /\ ~should_close
    /\ pcMain' = IF FrameComplete THEN "report" ELSE "events"
    /\ UNCHANGED <<restVars, sceneVars, texture_size, tile_size, tile_x_count, tile_y_count, tile_counter,
                   chan, tasks, should_close, merged, received, batch, reported,
                   resizes, refresh>>

\* Lines 263-281: the frame is reported and the counter is stored 0.
CoordReport ==
    /\ pcMain = "report"
    /\ reported' = reported + 1
    /\ tile_counter' = 0
    /\ pcMain' = "events"
    /\ UNCHANGED <<restVars, sceneVars, texture_size, tile_size, tile_x_count, tile_y_count,
                   chan, tasks, should_close, merged, received, batch,
                   resizes, refresh>>

\* handle_resize (lines 359-393) with render (395-477): the sizes and the
\* tile counts are set, the texture is reallocated, and one task per tile is
\* pushed onto self.tasks.  Neither the tasks already in self.tasks nor
\* tile_counter nor the channel is touched.
TasksAfterResize(width, height) ==
    tasks \o Spawned(width, height, tile_size, TileCount(width, tile_size),
                     TileCount(height, tile_size), batch + 1)

HandleResize(width, height) ==
    /\ texture_size' = <<width, height>>
    /\ tile_x_count' = TileCount(width, tile_size)
    /\ tile_y_count' = TileCount(height, tile_size)
    /\ merged' = {}
    /\ tasks' = TasksAfterResize(width, height)
    /\ batch' = batch + 1
    /\ reported' = 0

\* process_events (lines 336-357): no event, a FramebufferSize event, or
\* the Escape key.
EventsNone ==
    /\ pcMain = "events"
    /\ pcMain' = "recv"
    /\ UNCHANGED <<restVars, sceneVars, texture_size, tile_size, tile_x_count, tile_y_count, tile_counter,
                   chan, tasks, should_close, merged, received, batch, reported,
                   resizes, refresh>>

EventsResize ==
    /\ pcMain = "events"
    /\ resizes < MaxResizes
    /\ \E size \in FrameSizes :
          /\ Len(tasks) + TileCount(size[1], tile_size) * TileCount(size[2], tile_size)
                <= MaxTasks
          /\ HandleResize(size[1], size[2])
    /\ resizes' = resizes + 1
    /\ pcMain' = "recv"
    /\ UNCHANGED <<restVars, sceneVars, tile_size, tile_counter, chan, should_close, received, refresh>>

EventsEscape ==
    /\ pcMain = "events"
    /\ should_close' = TRUE
    /\ pcMain' = "recv"
    /\ UNCHANGED <<restVars, sceneVars, texture_size, tile_size, tile_x_count, tile_y_count, tile_counter,
                   chan, tasks, merged, received, batch, reported, resizes, refresh>>

\* A consumer that loops on try_recv until the channel is empty.
TakenAll == chan

\* A receive that leaves the tile in the channel.
ChanAfterPeek == chan

\* Lines 286-308: one try_recv; a received tile is uploaded with
\* TexSubImage2D.  Then the frame is presented and the loop starts over.
Taken == IF chan = <<>> THEN <<>> ELSE <<Head(chan)>>

ChanAfterRecv == IF chan = <<>> THEN chan ELSE Tail(chan)

CoordRecv ==
    /\ pcMain = "recv"
    /\ chan' = ChanAfterRecv
    /\ merged' = merged \cup {Taken[i].task : i \in 1 .. Len(Taken)}
    /\ received' = received \cup {Taken[i].task : i \in 1 .. Len(Taken)}
    /\ refresh' = [queued |-> Len(chan), taken |-> Len(Taken),
                    changed |-> merged' # merged]
    /\ pcMain' = "check"
    /\ UNCHANGED <<restVars, sceneVars, texture_size, tile_size, tile_x_count, tile_y_count, tile_counter,
                   tasks, should_close, batch, reported, resizes>>

\* Lines 331-333: the loop has ended; every task of self.tasks is aborted.
AbortAll == [id \in TaskIds |-> [tasks[id] EXCEPT !.abort = TRUE]]

CoordExit ==
    /\ pcMain = "check"
    /\ should_close
    /\ tasks' = AbortAll
    /\ pcMain' = "exited"
    /\ UNCHANGED <<restVars, sceneVars, texture_size, tile_size, tile_x_count, tile_y_count, tile_counter,
                   chan, should_close, merged, received, batch, reported, resizes,
                   refresh>>

Next ==
    \/ \E id \in TaskIds : TaskLoad(id)
    \/ \E id \in TaskIds : TaskStore(id)
    \/ \E id \in TaskIds : TaskSend(id)
    \/ \E id \in TaskIds : TaskPanic(id)
    \/ CoordCheck
    \/ CoordReport
    \/ EventsNone
    \/ EventsResize
    \/ EventsEscape
    \/ CoordRecv
    \/ CoordExit

Spec == Init /\ [][Next]_vars


(***************************************************************************)
(* The scheduler under the fairness its scheduling gives: the loop of      *)
(* run() keeps iterating; the runtime keeps polling every spawned task;    *)
(* senders waiting on the full channel are served in turn (tokio's channel *)
(* hands out free slots in FIFO order).  The tasks of a run being finitely *)
(* many and each sending once, weak fairness of each task is enough here:  *)
(* once the others have sent, a waiting sender stays enabled as soon as    *)
(* the loop has taken a tile.                                              *)
(***************************************************************************)
TaskSlots == 1 .. MaxTasks

\* The steps of run() while no FramebufferSize event arrives.
CoordLoop == CoordCheck \/ CoordReport \/ EventsNone \/ EventsEscape \/ CoordRecv \/ CoordExit

TaskRun(i) ==
    \E id \in TaskIds \cap {i} : TaskLoad(id) \/ TaskStore(id) \/ TaskSend(id)

\* The thread of run() is never descheduled for good, and neither is a task.
Fairness ==
    /\ WF_vars(CoordLoop)
    /\ \A i \in TaskSlots : WF_vars(TaskRun(i))

\* One batch: the scheduler while the window keeps its size.
NextLoop ==
    \/ \E id \in TaskIds : TaskLoad(id)
    \/ \E id \in TaskIds : TaskStore(id)
    \/ \E id \in TaskIds : TaskSend(id)
    \/ \E id \in TaskIds : TaskPanic(id)
    \/ CoordCheck
    \/ CoordReport
    \/ EventsNone
    \/ EventsEscape
    \/ CoordRecv
    \/ CoordExit

LoopSpec == Init /\ [][NextLoop]_vars /\ Fairness

(***************************************************************************)
(* Tile geometry on its own: Application::new with every window size and   *)
(* tile size of the bounds; its handle_resize call dispatches the batch.   *)
(***************************************************************************)
InitTiles ==
    /\ tile_size \in 1 .. MaxTileSize
    /\ texture_size = <<0, 0>>
    /\ tile_x_count = 0
    /\ tile_y_count = 0
    /\ tile_counter = 0
    /\ chan = <<>>
    /\ tasks = <<>>
    /\ pcMain = "new"
    /\ should_close = FALSE
    /\ merged = {}
    /\ received = {}
    /\ batch = 0
    /\ reported = 0
    /\ resizes = 0
    /\ refresh = [queued |-> 0, taken |-> 0, changed |-> FALSE]
    /\ SceneIdle
    /\ RestIdle

NewResize ==
    /\ pcMain = "new"
    /\ \E width \in 1 .. MaxWidth, height \in 1 .. MaxHeight : HandleResize(width, height)
    /\ pcMain' = "check"
    /\ UNCHANGED <<restVars, sceneVars, tile_size, tile_counter, chan, should_close, received, resizes,
                   refresh>>

NextTiles == NewResize

TileSpec == InitTiles /\ [][NextTiles]_vars

(***************************************************************************)
(* The scene: Rect objects, Aabb, BvhNode and List.  Lengths and ray times *)
(* are integers in units of the 0.0001 by which Rect::bounding_box pads    *)
(* the plane of a rectangle; 1.0 is Unit.  Coordinates are whole multiples *)
(* of Unit and every direction component is 1.0 or -1.0, so each f32       *)
(* operation below is exact or keeps the order of the values it compares.  *)
(***************************************************************************)
Unit == 10000
Pad == 1

Axes == 1 .. 3

\* (k_axis, a_axis, b_axis) of a plane, lines 54-58 of rect.rs.
PlaneAxes(plane) ==
    CASE plane = "XY" -> <<3, 1, 2>>
      [] plane = "YZ" -> <<1, 2, 3>>
      [] plane = "ZX" -> <<2, 3, 1>>

\* Ray::at.
At(r, t) == [a \in Axes |-> r.origin[a] + t * r.direction[a]]

\* Option<HitRecord>: <<>> is None, <<h>> is Some(h).
None == <<>>

Some(h) == <<h>>

\* Rect::hit; `material` is the identity of the object's material.
RectHit(rect, material, r, tmin, tmax) ==
    LET ax == PlaneAxes(rect.plane)
        \* the direction component is 1.0 or -1.0: dividing is multiplying
        t  == (rect.k - r.origin[ax[1]]) * r.direction[ax[1]]
        a  == r.origin[ax[2]] + t * r.direction[ax[2]]
        b  == r.origin[ax[3]] + t * r.direction[ax[3]]
    IN  IF t < tmin \/ t > tmax THEN None
        ELSE IF a < rect.a0 \/ a > rect.a1 \/ b < rect.b0 \/ b > rect.b1 THEN None
        ELSE Some([t |-> t, point |-> At(r, t), material |-> material])

\* A bounding box without the padding of the rectangle's plane.
RectBoundingBoxFlat(rect) ==
    LET ax == PlaneAxes(rect.plane)
    IN  [minimum |-> [a \in Axes |-> IF a = ax[1] THEN rect.k
                                     ELSE IF a = ax[2] THEN rect.a0 ELSE rect.b0],
         maximum |-> [a \in Axes |-> IF a = ax[1] THEN rect.k
                                     ELSE IF a = ax[2] THEN rect.a1 ELSE rect.b1]]

\* Rect::bounding_box.
RectBoundingBox(rect) ==
    LET ax == PlaneAxes(rect.plane)
    IN  [minimum |-> [a \in Axes |-> IF a = ax[1] THEN rect.k - Pad
                                     ELSE IF a = ax[2] THEN rect.a0 ELSE rect.b0],
         maximum |-> [a \in Axes |-> IF a = ax[1] THEN rect.k + Pad
                                     ELSE IF a = ax[2] THEN rect.a1 ELSE rect.b1]]

\* The slab test with the two interval ends clamped the wrong way round:
\* the interval bounds win over the slab's entry and exit times.
SlabHitLoose(box, r, tmin, tmax, a) ==
    LET inverse_direction == r.direction[a]
        t0 == (box.minimum[a] - r.origin[a]) * inverse_direction
        t1 == (box.maximum[a] - r.origin[a]) * inverse_direction
        time_start == IF inverse_direction < 0 THEN t1 ELSE t0
        time_end   == IF inverse_direction < 0 THEN t0 ELSE t1
        t_min == IF time_start > tmin THEN tmin ELSE time_start
        t_max == IF time_end < tmax THEN tmax ELSE time_end
    IN  ~(t_max <= t_min) /\ tmax - tmin <= time_end - time_start

\* One round of the loop of Aabb::hit: the slab of axis a against the
\* interval the call was given.
SlabHit(box, r, tmin, tmax, a) ==
    LET inverse_direction == r.direction[a]
        t0 == (box.minimum[a] - r.origin[a]) * inverse_direction
        t1 == (box.maximum[a] - r.origin[a]) * inverse_direction
        time_start == IF inverse_direction < 0 THEN t1 ELSE t0
        time_end   == IF inverse_direction < 0 THEN t0 ELSE t1
        t_min == IF time_start > tmin THEN time_start ELSE tmin
        t_max == IF time_end < tmax THEN time_end ELSE tmax
    IN  ~(t_max <= t_min)

\* Aabb::hit.
AabbHit(box, r, tmin, tmax) == \A a \in Axes : SlabHit(box, r, tmin, tmax, a)

Min(x, y) == IF x < y THEN x ELSE y

Max(x, y) == IF x > y THEN x ELSE y

\* A box that takes the smaller value for both corners.
SurroundingBoxOfMinima(box_0, box_1) ==
    [minimum |-> [a \in Axes |-> Min(box_0.minimum[a], box_1.minimum[a])],
     maximum |-> [a \in Axes |-> Min(box_0.maximum[a], box_1.maximum[a])]]

\* Aabb::surrounding_box.
SurroundingBox(box_0, box_1) ==
    [minimum |-> [a \in Axes |-> Min(box_0.minimum[a], box_1.minimum[a])],
     maximum |-> [a \in Axes |-> Max(box_0.maximum[a], box_1.maximum[a])]]

\* f32::MIN - f32::MAX, which rounds to -inf: below every range of boxes.
NegInfinity == -2147483647

\* The spread of the centres of the boxes on an axis, doubled.
CentreSpread(objs, ids, axis) ==
    LET sums == {RectBoundingBox(objs[ids[i]]).minimum[axis]
                    + RectBoundingBox(objs[ids[i]]).maximum[axis] : i \in 1 .. Len(ids)}
    IN  IF Len(ids) = 0 THEN 0
        ELSE (CHOOSE m \in sums : \A n \in sums : n <= m)
                - (CHOOSE m \in sums : \A n \in sums : m <= n)

\* BvhNode::axis_range: the fold of lines 89-97; over an empty Vec it
\* leaves (f32::MAX, f32::MIN).
AxisRange(objs, ids, axis) ==
    IF Len(ids) = 0 THEN NegInfinity ELSE
    LET maxima == {RectBoundingBox(objs[ids[i]]).maximum[axis] : i \in 1 .. Len(ids)}
        minima == {RectBoundingBox(objs[ids[i]]).minimum[axis] : i \in 1 .. Len(ids)}
        max == CHOOSE m \in maxima : \A n \in maxima : n <= m
        min == CHOOSE m \in minima : \A n \in minima : m <= n
    IN  max - min

\* The key BvhNode::box_compare orders by.
BoxCompareKey(rect, axis) ==
    RectBoundingBox(rect).minimum[axis] + RectBoundingBox(rect).maximum[axis]

\* axis_ranges[0].0 after the sort of line 31: an axis of the largest
\* range; sort_unstable_by leaves the order of equal ranges open.
SplitAxes(objs, ids) ==
    {axis \in Axes : \A other \in Axes :
        AxisRange(objs, ids, other) <= AxisRange(objs, ids, axis)}

\* The orders line 34 can leave the objects in: sorted by the key, equal
\* keys in any order.
SortedOrders(objs, ids, axis) ==
    LET n == Len(ids)
        members == {ids[i] : i \in 1 .. n}
    IN  {order \in [1 .. n -> members] :
            /\ \A id \in members : \E i \in 1 .. n : order[i] = id
            /\ \A i \in 1 .. n - 1 :
                  BoxCompareKey(objs[order[i]], axis)
                      <= BoxCompareKey(objs[order[i + 1]], axis)}

\* An empty list gives a node of the default box and no objects.
NoElementsDefault ==
    {[leaf |-> 0, bounding_box |-> [minimum |-> <<0, 0, 0>>, maximum |-> <<0, 0, 0>>]]}

\* The arm 0 => panic!["no elements in scene"] of BvhNode::new: the nodes
\* the call returns, none.
NoElements == {}

\* The calls of BvhNode::new a call on len objects enters, itself included:
\* lines 27-34 run for every length, the arm for 2 or more objects calls new
\* on the two halves.
RECURSIVE NewCalls(_)
NewCalls(len) ==
    IF len <= 1 THEN 1
    ELSE 1 + NewCalls(len - len \div 2) + NewCalls(len \div 2)

\* The larger half goes to the left.
MidPointUp(len) == len - len \div 2

\* The index objects.drain(len / 2..) splits the sorted list at, line 52.
MidPoint(len) == len \div 2

\* BvhNode::new on the objects ids of objs: the nodes it can return.
RECURSIVE BvhNodeNew(_, _)
BvhNodeNew(objs, ids) ==
    IF Len(ids) = 0 THEN NoElements
    ELSE IF Len(ids) = 1
    THEN {[leaf |-> ids[1], bounding_box |-> RectBoundingBox(objs[ids[1]])]}
    ELSE UNION {
            {[left |-> left, right |-> right, axis |-> split[1],
              bounding_box |-> SurroundingBox(left.bounding_box, right.bounding_box)] :
                left \in BvhNodeNew(objs, SubSeq(split[2], 1, MidPoint(Len(ids)))),
                right \in BvhNodeNew(objs,
                                     SubSeq(split[2], MidPoint(Len(ids)) + 1, Len(ids)))} :
            split \in UNION {{<<axis, order>> : order \in SortedOrders(objs, ids, axis)} :
                               axis \in SplitAxes(objs, ids)}}

\* The left hit wins over the right one.
LeftElseRight(left, right) == IF left # None THEN left ELSE right

\* Lines 118-122 of BvhNode::hit: the right hit if present, else the left.
RightElseLeft(left, right) == IF right # None THEN right ELSE left

\* BvhNode::hit.
RECURSIVE BvhNodeHit(_, _, _, _, _)
BvhNodeHit(node, objs, r, tmin, tmax) ==
    IF ~AabbHit(node.bounding_box, r, tmin, tmax) THEN None
    ELSE IF "leaf" \in DOMAIN node
         THEN RectHit(objs[node.leaf], node.leaf, r, tmin, tmax)
         ELSE LET left == BvhNodeHit(node.left, objs, r, tmin, tmax)
                  time_max == IF left # None THEN left[1].t ELSE tmax
                  right == BvhNodeHit(node.right, objs, r, tmin, time_max)
              IN  RightElseLeft(left, right)

\* The loop of List::hit from object i on.
RECURSIVE ListScan(_, _, _, _, _, _)
ListScan(objs, i, r, tmin, closest, hit_anything) ==
    IF i > Len(objs) THEN hit_anything
    ELSE LET hit == RectHit(objs[i], i, r, tmin, closest)
         IN  IF hit # None
             THEN ListScan(objs, i + 1, r, tmin, hit[1].t, hit)
             ELSE ListScan(objs, i + 1, r, tmin, closest, hit_anything)

\* List::hit.
ListHit(objs, r, tmin, tmax) == ListScan(objs, 1, r, tmin, tmax, None)

\* The inputs of the bounds.
MaxObjects == 2
MaxCoord == 2
MaxTime == 2

Coords == {c * Unit : c \in 0 .. MaxCoord}

Sides == {side \in Coords \X Coords : side[1] < side[2]}

Rects ==
    {[plane |-> plane, a0 |-> a[1], a1 |-> a[2], b0 |-> 0, b1 |-> MaxCoord * Unit,
      k |-> k] : plane \in {"XY", "YZ", "ZX"}, a \in Sides, k \in Coords}

Rays ==
    {[origin |-> origin, direction |-> direction] :
        origin \in Coords \X Coords \X Coords,
        direction \in {-1, 1} \X {-1, 1} \X {-1, 1}}

Times == {t * Unit : t \in 0 .. MaxTime}

\* No scheduler is involved in the scene.
SchedulerIdle ==
    /\ tile_size = 0
    /\ texture_size = <<0, 0>>
    /\ tile_x_count = 0
    /\ tile_y_count = 0
    /\ tile_counter = 0
    /\ chan = <<>>
    /\ tasks = <<>>
    /\ pcMain = "idle"
    /\ should_close = FALSE
    /\ merged = {}
    /\ received = {}
    /\ batch = 0
    /\ reported = 0
    /\ resizes = 0
    /\ refresh = [queued |-> 0, taken |-> 0, changed |-> FALSE]

schedVars == <<texture_size, tile_size, tile_x_count, tile_y_count, tile_counter, chan,
               tasks, pcMain, should_close, merged, received, batch, reported,
               resizes, refresh>>

InitScene ==
    /\ SchedulerIdle
    /\ RestIdle
    /\ \E n \in 0 .. MaxObjects : objects \in [1 .. n -> Rects]
    /\ new_calls = 0
    /\ bvh = <<>>
    /\ query = <<>>
    /\ bvh_hit = None
    /\ list_hit = None
    /\ pcScene = "objects"

\* BvhNode::new(objects, 0.0, 1.0).
BvhNew ==
    /\ pcScene = "objects"
    /\ bvh' \in BvhNodeNew(objects, [i \in 1 .. Len(objects) |-> i])
    /\ new_calls' = NewCalls(Len(objects))
    /\ pcScene' = "built"
    /\ UNCHANGED <<restVars, schedVars, objects, query, bvh_hit, list_hit>>

\* BvhNode::new panics: the thread unwinds and no node exists.
BvhNewPanic ==
    /\ pcScene = "objects"
    /\ BvhNodeNew(objects, [i \in 1 .. Len(objects) |-> i]) = {}
    /\ new_calls' = NewCalls(Len(objects))
    /\ pcScene' = "panicked"
    /\ UNCHANGED <<restVars, schedVars, objects, bvh, query, bvh_hit, list_hit>>

\* The lists of up to MaxBuildObjects rectangles, of one size in each
\* plane, that the tree is built of when no ray is cast.
MaxBuildObjects == 3

BuildRects == {rect \in Rects : rect.a0 = 0 /\ rect.a1 = Unit}

InitBuild ==
    /\ SchedulerIdle
    /\ RestIdle
    /\ \E n \in 0 .. MaxBuildObjects : objects \in [1 .. n -> BuildRects]
    /\ new_calls = 0
    /\ bvh = <<>>
    /\ query = <<>>
    /\ bvh_hit = None
    /\ list_hit = None
    /\ pcScene = "objects"

\* A caller picks the ray and the interval of the two hit calls.
CastRay ==
    /\ pcScene = "built"
    /\ \E r \in Rays, tmin \in Times, tmax \in Times :
          /\ tmin < tmax
          /\ query' = [ray |-> r, time_min |-> tmin, time_max |-> tmax]
    /\ pcScene' = "cast"
    /\ UNCHANGED <<restVars, schedVars, new_calls, objects, bvh, bvh_hit, list_hit>>

HitBvh ==
    /\ pcScene = "cast"
    /\ bvh_hit' = BvhNodeHit(bvh, objects, query.ray, query.time_min, query.time_max)
    /\ pcScene' = "bvh"
    /\ UNCHANGED <<restVars, schedVars, new_calls, objects, bvh, query, list_hit>>

HitList ==
    /\ pcScene = "bvh"
    /\ list_hit' = ListHit(objects, query.ray, query.time_min, query.time_max)
    /\ pcScene' = "done"
    /\ UNCHANGED <<restVars, schedVars, new_calls, objects, bvh, query, bvh_hit>>

NextScene == BvhNew \/ BvhNewPanic \/ CastRay \/ HitBvh \/ HitList

SceneSpec == InitScene /\ [][NextScene]_vars

NextBuild == BvhNew \/ BvhNewPanic

BuildSpec == InitBuild /\ [][NextBuild]_vars

\* Aabb::surrounding_box and Aabb::hit called on boxes of the bounds.
MaxBoxCoord == 1

BoxCoords == {c * Unit : c \in 0 .. MaxBoxCoord}

\* Aabb::new with minimum <= maximum on each axis.
Boxes ==
    {b \in [minimum : [Axes -> BoxCoords], maximum : [Axes -> BoxCoords]] :
        \A a \in Axes : b.minimum[a] <= b.maximum[a]}

\* Where the rays of the hit calls start on each axis: before, on and
\* within the boxes.
RayCoords == {-3 * (Unit \div 2), 0, Unit}

BoxRays ==
    {[origin |-> origin, direction |-> direction] :
        origin \in RayCoords \X RayCoords \X RayCoords,
        direction \in {-1, 1} \X {-1, 1} \X {-1, 1}}

\* The interval ends of the hit calls, in steps of half a unit.
BoxTimes == {t * (Unit \div 2) : t \in 0 .. 2 * MaxTime}

InitBox ==
    /\ SchedulerIdle
    /\ SceneIdle
    /\ PathIdle
    /\ SphereIdle
    /\ DielectricIdle
    /\ RngIdle
    /\ WrapIdle
    /\ EnvelopeIdle
    /\ box_a \in Boxes
    /\ \/ box_b \in Boxes /\ pcBox = "pair"
       \/ box_b = box_a /\ pcBox = "box"
    /\ surrounding = <<>>
    /\ probe = <<>>
    /\ probe_hit = <<>>

\* let outer = Aabb::surrounding_box(box_a, box_b).
SurroundingBoxCall ==
    /\ pcBox = "pair"
    /\ surrounding' = SurroundingBox(box_a, box_b)
    /\ pcBox' = "surrounded"
    /\ UNCHANGED <<schedVars, sceneVars, pathVars, sphereVars, dielectricVars, rngVars, wrapVars, envelopeVars, box_a, box_b, probe, probe_hit>>

\* box_a.hit(ray, time_min, time_max) and box_a.hit(ray, wide_min, wide_max)
\* for an interval and one that contains it.
AabbHitCalls ==
    /\ pcBox = "box"
    /\ \E r \in BoxRays, tmin \in BoxTimes, tmax \in BoxTimes,
          wmin \in BoxTimes, wmax \in BoxTimes :
          /\ wmin <= tmin /\ tmin < tmax /\ tmax <= wmax
          /\ probe' = [ray |-> r, time_min |-> tmin, time_max |-> tmax,
                       wide_min |-> wmin, wide_max |-> wmax]
          /\ probe_hit' = [narrow |-> AabbHit(box_a, r, tmin, tmax),
                           wide |-> AabbHit(box_a, r, wmin, wmax)]
    /\ pcBox' = "probed"
    /\ UNCHANGED <<schedVars, sceneVars, pathVars, sphereVars, dielectricVars, rngVars, wrapVars, envelopeVars, box_a, box_b, surrounding>>

NextBox == SurroundingBoxCall \/ AabbHitCalls

BoxSpec == InitBox /\ [][NextBox]_vars

\* Sphere::hit in whole thousandths: lengths and times are multiples of
\* 0.001, the time_min of ray_color; directions are whole numbers.
Milli == 1000

\* f32::INFINITY, the time_max of ray_color: above every root of the bounds.
Infinity == 1000000000

MaxRadius == 4

MaxOffset == 2

Dot(v, w) == v[1] * w[1] + v[2] * w[2] + v[3] * w[3]

IsSquare(n) == \E s \in 0 .. MaxRadius * Milli * 2 : s * s = n

\* f32::sqrt of a square.
Sqrt(n) == CHOOSE s \in 0 .. MaxRadius * Milli * 2 : s * s = n

\* The discriminant of Sphere::hit, lines 41-45.
Discriminant(s, r) ==
    LET origin_center == [a \in Axes |-> r.origin[a] - s.center[a]]
        a == Dot(r.direction, r.direction)
        half_b == Dot(origin_center, r.direction)
        c == Dot(origin_center, origin_center) - s.radius * s.radius
    IN  half_b * half_b - a * c

\* HitRecord::set_face_normal; the normal is outward_normal / den.
SetFaceNormal(hit_record, r, outward_normal, den) ==
    LET front_face == Dot(r.direction, outward_normal) < 0
    IN  [hit_record EXCEPT
            !.front_face = front_face,
            !.normal = [num |-> IF front_face THEN outward_normal
                                ELSE [a \in Axes |-> -outward_normal[a]],
                        den |-> den]]

\* The root of the far side of the sphere.
FarRoot(half_b, sqrtd, a) == (-half_b + sqrtd) \div a

\* The first root Sphere::hit tries, line 53.
NearRoot(half_b, sqrtd, a) == (-half_b - sqrtd) \div a

\* Sphere::hit.
SphereHit(s, r, time_min, time_max) ==
    LET origin_center == [a \in Axes |-> r.origin[a] - s.center[a]]
        a == Dot(r.direction, r.direction)
        half_b == Dot(origin_center, r.direction)
        discriminant == Discriminant(s, r)
        sqrtd == Sqrt(discriminant)
        near == NearRoot(half_b, sqrtd, a)
        far == (-half_b + sqrtd) \div a
        root == IF near < time_min \/ time_max < near THEN far ELSE near
        outward_normal == [x \in Axes |-> At(r, root)[x] - s.center[x]]
        hit_record == [point |-> At(r, root), normal |-> <<>>, t |-> root,
                       front_face |-> FALSE]
    IN  IF discriminant < 0 THEN None
        ELSE IF root < time_min \/ time_max < root THEN None
        ELSE Some(SetFaceNormal(hit_record, r, outward_normal, s.radius))

\* The centres, the ray origins on and beside the z axis, and the
\* directions along it.
Centers == {<<0, 0, 0>>, <<0, 0, Milli>>}

Origins ==
    {<<x * Milli, 0, z * Milli>> : x \in -MaxOffset .. MaxOffset, z \in {-5, 0, 5}}

Directions == {<<0, 0, -1>>, <<0, 0, 1>>, <<0, 0, -2>>}

\* Sphere::new and Ray::new, for the calls whose square root and division
\* are exact.
InitSphere ==
    /\ SchedulerIdle
    /\ SceneIdle
    /\ PathIdle
    /\ BoxIdle
    /\ DielectricIdle
    /\ RngIdle
    /\ WrapIdle
    /\ EnvelopeIdle
    /\ sphere \in [center : Centers, radius : {radius * Milli : radius \in 1 .. MaxRadius}]
    /\ sphere_ray \in [origin : Origins, direction : Directions]
    /\ \/ Discriminant(sphere, sphere_ray) < 0
       \/ /\ IsSquare(Discriminant(sphere, sphere_ray))
          /\ Sqrt(Discriminant(sphere, sphere_ray))
                % Dot(sphere_ray.direction, sphere_ray.direction) = 0
    /\ sphere_hit = <<>>
    /\ pcSphere = "call"

\* world.hit(ray, 0.001, f32::INFINITY) on the sphere.
SphereHitCall ==
    /\ pcSphere = "call"
    /\ sphere_hit' = SphereHit(sphere, sphere_ray, 1, Infinity)
    /\ pcSphere' = "done"
    /\ UNCHANGED <<schedVars, sceneVars, pathVars, boxVars, dielectricVars, rngVars, wrapVars, envelopeVars,
                   sphere, sphere_ray>>

NextSphere == SphereHitCall

SphereSpec == InitSphere /\ [][NextSphere]_vars

\* Dielectric::scatter in exact fractions. Directions are whole vectors of
\* whole length 5, so that unit_direction is direction / 5, cos_theta and
\* sin_theta are fifths, and the normal is a unit vector along an axis.
Fifth == 5

\* rand.gen::<f32>() is a multiple of 1/RandomSteps in [0, 1).
RandomSteps == 1024

MaxIndex == 4

\* The indices of refraction num / den from 1.0 to 2.0.
Indices ==
    {[num |-> num, den |-> den] : num \in 1 .. MaxIndex, den \in 1 .. MaxIndex}
    \ {i \in [num : 1 .. MaxIndex, den : 1 .. MaxIndex] :
           \/ i.num < i.den
           \/ i.num > 2 * i.den
           \/ \E k \in 2 .. MaxIndex : i.num % k = 0 /\ i.den % k = 0}

\* The whole vectors of length 5 with at most two components that are not 0.
Incoming ==
    {v \in [Axes -> {-5, -4, -3, 0, 3, 4, 5}] : Dot(v, v) = Fifth * Fifth}

Normals == {v \in [Axes -> {-1, 0, 1}] : Dot(v, v) = 1}

Draws == {0, 1, RandomSteps \div 2, RandomSteps - 1}

\* refraction_ratio, lines 32-36.
RefractionRatio(index, front_face) ==
    IF front_face THEN [num |-> index.den, den |-> index.num] ELSE index

\* cos_theta in fifths, line 39: (-unit_direction).dot(normal).min(1.0).
CosTheta(direction, normal) == Min(-Dot(direction, normal), Fifth)

\* The square of sin_theta in 25ths, line 40.
SinThetaSquared(cos_theta) == Fifth * Fifth - cos_theta * cos_theta

IsSquareOfFifths(n) == \E root \in 0 .. Fifth * MaxIndex : root * root = n

SqrtOfFifths(n) == CHOOSE root \in 0 .. Fifth * MaxIndex : root * root = n

\* cannot_refract, line 42: refraction_ratio * sin_theta > 1.0.
CannotRefract(ratio, cos_theta) ==
    ratio.num * ratio.num * SinThetaSquared(cos_theta)
        > ratio.den * ratio.den * Fifth * Fifth

Power5(x) == x * x * x * x * x

\* math::reflectance, Schlick's approximation, as the fraction [num, den].
Reflectance(cos_theta, refraction_index) ==
    LET a == refraction_index.den - refraction_index.num
        b == refraction_index.den + refraction_index.num
        r0 == [num |-> a * a, den |-> b * b]
    IN  [num |-> r0.num * Power5(Fifth) + (r0.den - r0.num) * Power5(Fifth - cos_theta),
         den |-> r0.den * Power5(Fifth)]

\* math::reflect of unit_direction = direction / 5: v - 2.0 * v.dot(n) * n.
Reflect(direction, normal) ==
    [num |-> [a \in Axes |-> direction[a] - 2 * Dot(direction, normal) * normal[a]],
     den |-> Fifth]

\* 1.0 - r_out_perp.dot(r_out_perp) of math::refract, times (5 * den)^2.
ParallelSquared(direction, normal, ratio) ==
    ratio.den * ratio.den * Fifth * Fifth
        - ratio.num * ratio.num * SinThetaSquared(CosTheta(direction, normal))

\* math::refract of unit_direction = direction / 5.
Refract(direction, normal, ratio) ==
    LET cos_theta == CosTheta(direction, normal)
        parallel == SqrtOfFifths(ParallelSquared(direction, normal, ratio))
    IN  [num |-> [a \in Axes |->
                    ratio.num * (direction[a] + cos_theta * normal[a])
                        - parallel * normal[a]],
         den |-> Fifth * ratio.den]

\* Dielectric::scatter.
DielectricScatter(index, r, hit_record, random) ==
    LET refraction_ratio == RefractionRatio(index, hit_record.front_face)
        cos_theta == CosTheta(r.direction, hit_record.normal)
        cannot_refract == CannotRefract(refraction_ratio, cos_theta)
        reflectance == Reflectance(cos_theta, refraction_ratio)
        reflects == cannot_refract
                      \/ reflectance.num * RandomSteps > random * reflectance.den
    IN  [attenuation |-> <<1, 1, 1>>,
         branch |-> IF reflects THEN "reflect" ELSE "refract",
         direction |-> IF reflects THEN Reflect(r.direction, hit_record.normal)
                       ELSE Refract(r.direction, hit_record.normal, refraction_ratio)]

\* A hit record is valid when set_face_normal has turned the normal against
\* the ray. The calls are those whose square roots are exact.
InitDielectric ==
    /\ SchedulerIdle
    /\ SceneIdle
    /\ PathIdle
    /\ BoxIdle
    /\ SphereIdle
    /\ RngIdle
    /\ WrapIdle
    /\ EnvelopeIdle
    /\ dielectric \in Indices
    /\ \E direction \in Incoming :
          scatter_ray = [direction |-> direction, length |-> Fifth]
    /\ scatter_hit \in [normal : Normals, front_face : BOOLEAN]
    /\ Dot(scatter_ray.direction, scatter_hit.normal) < 0
    /\ LET ratio == RefractionRatio(dielectric, scatter_hit.front_face)
           cos_theta == CosTheta(scatter_ray.direction, scatter_hit.normal)
       IN  \/ CannotRefract(ratio, cos_theta)
           \/ IsSquareOfFifths(
                 ParallelSquared(scatter_ray.direction, scatter_hit.normal, ratio))
    /\ gen \in Draws
    /\ scattered = <<>>
    /\ pcDielectric = "call"

\* hit_record.material.scatter(ray, &hit_record).
ScatterCall ==
    /\ pcDielectric = "call"
    /\ scattered' = DielectricScatter(dielectric, scatter_ray, scatter_hit, gen)
    /\ pcDielectric' = "done"
    /\ UNCHANGED <<schedVars, sceneVars, pathVars, boxVars, sphereVars, rngVars, wrapVars, envelopeVars,
                   dielectric, scatter_ray, scatter_hit, gen>>

NextDielectric == ScatterCall

DielectricSpec == InitDielectric /\ [][NextDielectric]_vars

\* Two renders of one frame. The task of a tile runs its pixel loop without
\* an await, so on one worker thread from start to end; every value it
\* draws comes from rand::thread_rng(), the generator of that thread.
Workers == 2

RngTiles == 2

MaxSeed == 2

DrawsPerTile == 2

Runs == {1, 2}

\* What the operating system's entropy source can seed a generator with.
Seeds == 1 .. MaxSeed

\* The n-th value of the generator seeded with seed: a fixed stream per seed.
RECURSIVE Generate(_, _)
Generate(seed, n) ==
    IF n = 0 THEN seed ELSE (5 * Generate(seed, n - 1) + 3) % 16

InitRng ==
    /\ SchedulerIdle
    /\ SceneIdle
    /\ PathIdle
    /\ BoxIdle
    /\ SphereIdle
    /\ DielectricIdle
    /\ WrapIdle
    /\ EnvelopeIdle
    /\ rng_seed = [run \in Runs |-> [thread \in 1 .. Workers |-> 0]]
    /\ rng_drawn = [run \in Runs |-> [thread \in 1 .. Workers |-> 0]]
    /\ tile_thread = [run \in Runs |-> [tile \in 1 .. RngTiles |-> 0]]
    /\ tile_pixels = [run \in Runs |-> [tile \in 1 .. RngTiles |-> <<>>]]
    /\ pcRng = "render"

\* The first rand::thread_rng() on a worker thread creates the thread's
\* generator and seeds it from the operating system.
ThreadRngInit(run, thread) ==
    /\ pcRng = "render"
    /\ rng_seed[run][thread] = 0
    /\ \E seed \in Seeds : rng_seed' = [rng_seed EXCEPT ![run][thread] = seed]
    /\ UNCHANGED <<schedVars, sceneVars, pathVars, boxVars, sphereVars, dielectricVars, wrapVars, envelopeVars,
                   rng_drawn, tile_thread, tile_pixels, pcRng>>

\* The runtime runs the task of a tile on a worker thread: the sample loop
\* of lines 437-451 draws from that thread's generator.
TileTask(run, tile, thread) ==
    /\ pcRng = "render"
    /\ tile_thread[run][tile] = 0
    /\ rng_seed[run][thread] # 0
    /\ tile_thread' = [tile_thread EXCEPT ![run][tile] = thread]
    /\ tile_pixels' = [tile_pixels EXCEPT ![run][tile] =
            [i \in 1 .. DrawsPerTile |->
                Generate(rng_seed[run][thread], rng_drawn[run][thread] + i)]]
    /\ rng_drawn' = [rng_drawn EXCEPT ![run][thread] = @ + DrawsPerTile]
    /\ UNCHANGED <<schedVars, sceneVars, pathVars, boxVars, sphereVars, dielectricVars, wrapVars, envelopeVars,
                   rng_seed, pcRng>>

NextRng ==
    \/ \E run \in Runs, thread \in 1 .. Workers : ThreadRngInit(run, thread)
    \/ \E run \in Runs, tile \in 1 .. RngTiles, thread \in 1 .. Workers :
          TileTask(run, tile, thread)

RngSpec == InitRng /\ [][NextRng]_vars

\* Translation and ConstantMedium around a sphere, in the thousandths of
\* the sphere calls.

\* Sphere::bounding_box.
SphereBoundingBox(s) ==
    [minimum |-> [a \in Axes |-> s.center[a] - s.radius],
     maximum |-> [a \in Axes |-> s.center[a] + s.radius]]

\* The ray Translation::hit hands to the child, lines 25-29.
MovedRay(r, displacement) ==
    [origin |-> [a \in Axes |-> r.origin[a] - displacement[a]],
     direction |-> r.direction]

\* The point of the child's hit as it is.
UnshiftedPoint(point, displacement) == point

\* hit_record.point += self.displacement, line 35.
ShiftedPoint(point, displacement) == [a \in Axes |-> point[a] + displacement[a]]

\* Translation::hit.
TranslationHit(s, displacement, r, time_min, time_max) ==
    LET moved_ray == MovedRay(r, displacement)
        child == SphereHit(s, moved_ray, time_min, time_max)
        hit_record == [child[1] EXCEPT
                          !.point = ShiftedPoint(child[1].point, displacement)]
    IN  IF child = None THEN None
        ELSE Some(SetFaceNormal(hit_record, moved_ray,
                                hit_record.normal.num, hit_record.normal.den))

\* Translation::bounding_box.
TranslationBoundingBox(s, displacement) ==
    LET output_box == SphereBoundingBox(s)
    IN  [minimum |-> [a \in Axes |-> output_box.minimum[a] + displacement[a]],
         maximum |-> [a \in Axes |-> output_box.maximum[a] + displacement[a]]]

\* The 0.0001 of line 38 on the grid of the model: above 0 and below the
\* distance of two roots.
MediumStep == 1

\* ray.direction().magnitude() of a ray along an axis.
Magnitude(direction) == CHOOSE l \in 0 .. 2 : l * l = Dot(direction, direction)

\* The exit time taken as it is.
UnclampedExit(t, time_max) == t

\* Lines 44-46 of ConstantMedium::hit.
ClampedExit(t, time_max) == IF t > time_max THEN time_max ELSE t

\* ConstantMedium::hit with the sphere as boundary.
ConstantMediumHit(s, r, time_min, time_max, hit_distance) ==
    LET record_1 == SphereHit(s, r, -Infinity, Infinity)
        record_2 == SphereHit(s, r, record_1[1].t + MediumStep, Infinity)
        entry == IF record_1[1].t < time_min THEN time_min ELSE record_1[1].t
        exit == ClampedExit(record_2[1].t, time_max)
        start == IF entry < 0 THEN 0 ELSE entry
        ray_length == Magnitude(r.direction)
        distance_inside_boundary == (exit - start) * ray_length
        t == start + hit_distance \div ray_length
    IN  IF record_1 = None THEN None
        ELSE IF record_2 = None THEN None
        ELSE IF entry >= exit THEN None
        ELSE IF hit_distance > distance_inside_boundary THEN None
        ELSE Some([point |-> At(r, t), normal |-> [num |-> <<0, 0, 0>>, den |-> 1],
                   t |-> t, front_face |-> FALSE])

Displacements == {<<0, 0, 0>>, <<0, 0, 5 * Milli>>, <<Milli, 0, 0>>}

\* The values of negative_inverse_density * ln(rand.gen()) for a positive
\* density: above 0, +inf for a draw of 0.
HitDistances == {2, Milli, 2 * Milli, 4 * Milli, 8 * Milli, Infinity}

Intervals ==
    {i \in [time_min : {-2 * Milli, 0, 1, 4 * Milli},
            time_max : {-Milli, Milli, 5 * Milli, Infinity}] : i.time_min <= i.time_max}

\* MovingSphere::center, times in halves.
Center(center_start, center_end, time_start, time_end, time) ==
    [a \in Axes |->
        center_start[a]
            + ((time - time_start) * (center_end[a] - center_start[a]))
                  \div (time_end - time_start)]

\* MovingSphere::hit: Sphere::hit about self.center(ray.time()).
MovingSphereHit(s, center_end, time_start, time_end, r, time, time_min, time_max) ==
    SphereHit([center |-> Center(s.center, center_end, time_start, time_end, time),
               radius |-> s.radius], r, time_min, time_max)

\* The sides of Cuboid::new, in the order they are pushed.
CuboidNew(box_min, box_max) ==
    <<[plane |-> "XY", a0 |-> box_min[1], a1 |-> box_max[1],
       b0 |-> box_min[2], b1 |-> box_max[2], k |-> box_max[3]],
      [plane |-> "XY", a0 |-> box_min[1], a1 |-> box_max[1],
       b0 |-> box_min[2], b1 |-> box_max[2], k |-> box_min[3]],
      [plane |-> "ZX", a0 |-> box_min[3], a1 |-> box_max[3],
       b0 |-> box_min[1], b1 |-> box_max[1], k |-> box_max[2]],
      [plane |-> "ZX", a0 |-> box_min[3], a1 |-> box_max[3],
       b0 |-> box_min[1], b1 |-> box_max[1], k |-> box_min[2]],
      [plane |-> "YZ", a0 |-> box_min[2], a1 |-> box_max[2],
       b0 |-> box_min[3], b1 |-> box_max[3], k |-> box_max[1]],
      [plane |-> "YZ", a0 |-> box_min[2], a1 |-> box_max[2],
       b0 |-> box_min[3], b1 |-> box_max[3], k |-> box_min[1]]>>

\* Cuboid::hit.
CuboidHit(sides, r, time_min, time_max) == ListHit(sides, r, time_min, time_max)

\* The rays cast at the cuboids and the far corners of the cuboids.
CuboidRays ==
    [origin : {-Milli, 0, 2 * Milli} \X {-Milli, 0, 2 * Milli} \X {-Milli, 0, 2 * Milli},
     direction : {-1, 1} \X {-1, 1} \X {-1, 1}]

Corners == {<<Milli, Milli, Milli>>, <<2 * Milli, Milli, Milli>>}

\* ray.time() in halves, between the time_start 0.0 and the time_end 1.0 of
\* the moving spheres.
RayTimes == {0, 1, 2}

\* The square root and the division of Sphere::hit are exact for the ray.
ExactFor(s, r) ==
    \/ Discriminant(s, r) < 0
    \/ /\ IsSquare(Discriminant(s, r))
       /\ Sqrt(Discriminant(s, r)) % Dot(r.direction, r.direction) = 0

InitWrap ==
    /\ SchedulerIdle
    /\ SceneIdle
    /\ PathIdle
    /\ BoxIdle
    /\ DielectricIdle
    /\ RngIdle
    /\ EnvelopeIdle
    /\ sphere_hit = <<>>
    /\ pcSphere = "idle"
    /\ \E i \in Intervals :
          \/ /\ sphere \in [center : Centers,
                             radius : {radius * Milli : radius \in 1 .. MaxRadius}]
             /\ sphere_ray \in [origin : Origins, direction : Directions]
             /\ \/ \E displacement \in Displacements :
                      /\ wrap = [kind |-> "translation", displacement |-> displacement,
                                 time_min |-> i.time_min, time_max |-> i.time_max,
                                 hit_distance |-> 0]
                      /\ ExactFor(sphere, MovedRay(sphere_ray, displacement))
                \/ \E hit_distance \in HitDistances :
                      /\ wrap = [kind |-> "medium", displacement |-> <<0, 0, 0>>,
                                 time_min |-> i.time_min, time_max |-> i.time_max,
                                 hit_distance |-> hit_distance]
                      /\ ExactFor(sphere, sphere_ray)
                \/ \E displacement \in Displacements, time \in RayTimes :
                      /\ wrap = [kind |-> "moving",
                                 center_end |-> ShiftedPoint(sphere.center, displacement),
                                 time_start |-> 0, time_end |-> 2, ray_time |-> time,
                                 time_min |-> i.time_min, time_max |-> i.time_max]
                      /\ ExactFor([center |-> Center(sphere.center, wrap.center_end,
                                                     0, 2, time),
                                   radius |-> sphere.radius], sphere_ray)
          \/ /\ sphere = [center |-> <<0, 0, 0>>, radius |-> Milli]
             /\ sphere_ray \in CuboidRays
             /\ \E box_max \in Corners :
                   wrap = [kind |-> "cuboid", sides |-> CuboidNew(<<0, 0, 0>>, box_max),
                           time_min |-> i.time_min, time_max |-> i.time_max]
    /\ wrap_hit = <<>>
    /\ wrap_box = <<>>
    /\ pcWrap = "call"

\* translation.hit(ray, time_min, time_max) and translation.bounding_box().
TranslationCall ==
    /\ pcWrap = "call"
    /\ wrap.kind = "translation"
    /\ wrap_hit' = TranslationHit(sphere, wrap.displacement, sphere_ray,
                                  wrap.time_min, wrap.time_max)
    /\ wrap_box' = TranslationBoundingBox(sphere, wrap.displacement)
    /\ pcWrap' = "done"
    /\ UNCHANGED <<schedVars, sceneVars, pathVars, boxVars, sphereVars, dielectricVars,
                   rngVars, envelopeVars, wrap>>

\* medium.hit(ray, time_min, time_max) and medium.bounding_box().
ConstantMediumCall ==
    /\ pcWrap = "call"
    /\ wrap.kind = "medium"
    /\ wrap_hit' = ConstantMediumHit(sphere, sphere_ray, wrap.time_min, wrap.time_max,
                                     wrap.hit_distance)
    /\ wrap_box' = SphereBoundingBox(sphere)
    /\ pcWrap' = "done"
    /\ UNCHANGED <<schedVars, sceneVars, pathVars, boxVars, sphereVars, dielectricVars,
                   rngVars, envelopeVars, wrap>>

\* moving_sphere.hit(ray, time_min, time_max) for a ray of time ray_time.
MovingSphereCall ==
    /\ pcWrap = "call"
    /\ wrap.kind = "moving"
    /\ wrap_hit' = MovingSphereHit(sphere, wrap.center_end, wrap.time_start,
                                   wrap.time_end, sphere_ray, wrap.ray_time,
                                   wrap.time_min, wrap.time_max)
    /\ pcWrap' = "done"
    /\ UNCHANGED <<schedVars, sceneVars, pathVars, boxVars, sphereVars, dielectricVars,
                   rngVars, envelopeVars, wrap, wrap_box>>

\* cuboid.hit(ray, time_min, time_max).
CuboidCall ==
    /\ pcWrap = "call"
    /\ wrap.kind = "cuboid"
    /\ wrap_hit' = CuboidHit(wrap.sides, sphere_ray, wrap.time_min, wrap.time_max)
    /\ pcWrap' = "done"
    /\ UNCHANGED <<schedVars, sceneVars, pathVars, boxVars, sphereVars, dielectricVars,
                   rngVars, envelopeVars, wrap, wrap_box>>

NextWrap == TranslationCall \/ ConstantMediumCall \/ MovingSphereCall \/ CuboidCall

WrapSpec == InitWrap /\ [][NextWrap]_vars

\* Every hittable of the scenes: the rectangles, their List and BvhNode,
\* the sphere, and the hittables around the sphere and of rectangles.
InitHittable == InitScene \/ InitSphere \/ InitWrap

NextHittable == NextScene \/ NextSphere \/ NextWrap

HittableSpec == InitHittable /\ [][NextHittable]_vars

\* List::bounding_box on the boxes of the children.

\* A child without a box is passed over.
FoldStepSkipping(aabb, hittable_aabb) ==
    IF hittable_aabb = None THEN Some(aabb)
    ELSE Some(SurroundingBox(aabb, hittable_aabb[1]))

\* The closure of try_fold, lines 40-43.
FoldStep(aabb, hittable_aabb) ==
    IF hittable_aabb = None THEN None
    ELSE Some(SurroundingBox(aabb, hittable_aabb[1]))

\* Iterator::try_fold from the i-th child on.
RECURSIVE TryFold(_, _, _)
TryFold(boxes, i, aabb) ==
    IF i > Len(boxes) THEN Some(aabb)
    ELSE LET step == FoldStep(aabb, boxes[i])
         IN  IF step = None THEN None ELSE TryFold(boxes, i + 1, step[1])

\* List::bounding_box.
ListBoundingBox(boxes) ==
    IF Len(boxes) = 0 THEN None
    ELSE IF boxes[1] = None THEN None
    ELSE TryFold(boxes, 2, boxes[1][1])

MaxChildren == 3

\* The boxes of the children: any extent on x, from 0 on y, flat on z.
ChildBoxes ==
    {b \in Boxes : b.minimum[2] = 0 /\ b.minimum[3] = 0 /\ b.maximum[3] = 0}

InitEnvelope ==
    /\ SchedulerIdle
    /\ SceneIdle
    /\ PathIdle
    /\ BoxIdle
    /\ SphereIdle
    /\ DielectricIdle
    /\ RngIdle
    /\ WrapIdle
    /\ \E n \in 0 .. MaxChildren :
          children \in [1 .. n -> {None} \cup {Some(b) : b \in ChildBoxes}]
    /\ list_box = <<>>
    /\ pcEnvelope = "call"

\* list.bounding_box(time_start, time_end).
ListBoundingBoxCall ==
    /\ pcEnvelope = "call"
    /\ list_box' = ListBoundingBox(children)
    /\ pcEnvelope' = "done"
    /\ UNCHANGED <<schedVars, sceneVars, pathVars, boxVars, sphereVars, dielectricVars,
                   rngVars, wrapVars, children>>

NextEnvelope == ListBoundingBoxCall

EnvelopeSpec == InitEnvelope /\ [][NextEnvelope]_vars

(***************************************************************************)
(* ray_color (application.rs, lines 479-497) as the sequence of its calls: *)
(* the world and the materials are any: a hit call gives a miss or a hit,  *)
(* and the hit material emits a colour and scatters or does not.  Colours  *)
(* are Vec3 of small whole numbers, on which the f32 sums and products of  *)
(* ray_color are exact.                                                    *)
(***************************************************************************)
MaxDepth == 3
MaxSamples == 7

Black == <<0, 0, 0>>

\* Vec3 + Vec3 and mul_element_wise.
VecAdd(a, b) == [i \in 1 .. 3 |-> a[i] + b[i]]

MulElementWise(a, b) == [i \in 1 .. 3 |-> a[i] * b[i]]

Backgrounds == {Black, <<1, 2, 1>>}

\* The colours of the DiffuseLight materials of the scenes (lines 627, 647
\* and 848 of application.rs).
LightColors == {<<4, 4, 4>>, <<7, 7, 7>>, <<15, 15, 15>>}

\* What Material::emitted and the attenuation of Material::scatter return.
Emissions == {Black, <<1, 0, 2>>}

Attenuations == {<<1, 1, 1>>, <<2, 0, 1>>}

\* The emitted colours the materials of the world can return.
WorldEmissions == IF world.kind = "light" THEN {world.emit} ELSE Emissions

\* A ray_color that gives up with the background colour.
DepthZeroBackground == background

\* Line 481: the colour returned at depth 0.
DepthZeroColor == <<0, 0, 0>>

\* Line 480-482: depth == 0 returns black before anything else.
RayColorBlack ==
    /\ pcPath = "call"
    /\ call_depth = 0
    /\ value' = DepthZeroColor
    /\ pcPath' = "return"
    /\ UNCHANGED <<schedVars, sceneVars, unitVars, world, background, depth, call_depth, frames,
                   outcomes, hits, sample_count, samples, sampled, pixel_color, average>>

\* Lines 484-486: world.hit gives None, the background is returned.
RayColorMiss ==
    /\ pcPath = "call"
    /\ call_depth # 0
    /\ hits' = hits + 1
    /\ outcomes' = Append(outcomes, [kind |-> "miss", emitted |-> Black,
                                     attenuation |-> Black])
    /\ value' = background
    /\ pcPath' = "return"
    /\ UNCHANGED <<schedVars, sceneVars, unitVars, world, background, depth, call_depth, frames,
                   sample_count, samples, sampled, pixel_color, average>>

\* Lines 484-493: a hit whose material does not scatter returns emitted.
RayColorEmitted ==
    /\ pcPath = "call"
    /\ call_depth # 0
    /\ hits' = hits + 1
    /\ \E emitted \in WorldEmissions :
          /\ outcomes' = Append(outcomes, [kind |-> "emitted", emitted |-> emitted,
                                           attenuation |-> Black])
          /\ value' = emitted
    /\ pcPath' = "return"
    /\ UNCHANGED <<schedVars, sceneVars, unitVars, world, background, depth, call_depth, frames,
                   sample_count, samples, sampled, pixel_color, average>>

\* A recursion that passes its own depth on.
SameDepth == call_depth

\* Line 495: the depth argument of the nested call.
NestedDepth == call_depth - 1

\* Lines 484-495: a hit whose material scatters: the call is suspended and
\* ray_color is called for the scattered ray with depth - 1.
RayColorScatter ==
    /\ pcPath = "call"
    /\ call_depth # 0
    /\ world.kind = "any"
    /\ hits' = hits + 1
    /\ \E emitted \in WorldEmissions, attenuation \in Attenuations :
          /\ outcomes' = Append(outcomes, [kind |-> "scatter", emitted |-> emitted,
                                           attenuation |-> attenuation])
          /\ frames' = Append(frames, [emitted |-> emitted, attenuation |-> attenuation])
    /\ call_depth' = NestedDepth
    /\ UNCHANGED <<schedVars, sceneVars, unitVars, world, background, depth, value,
                   sample_count, samples, sampled, pixel_color, average, pcPath>>

\* A combination that adds the attenuation instead of multiplying by it.
CombinedSum(frame, ray_color) ==
    VecAdd(VecAdd(frame.attenuation, ray_color), frame.emitted)

\* Line 496: the result of the suspended call.
Combined(frame, ray_color) ==
    VecAdd(MulElementWise(frame.attenuation, ray_color), frame.emitted)

\* Lines 495-496: the nested call has returned into the suspended one.
RayColorReturn ==
    /\ pcPath = "return"
    /\ frames # <<>>
    /\ value' = Combined(frames[Len(frames)], value)
    /\ frames' = SubSeq(frames, 1, Len(frames) - 1)
    /\ call_depth' = call_depth + 1
    /\ UNCHANGED <<schedVars, sceneVars, unitVars, world, background, depth, outcomes, hits,
                   sample_count, samples, sampled, pixel_color, average, pcPath>>

\* The outermost call has returned to its caller.
Returned == pcPath = "return" /\ frames = <<>>

RayColorDone ==
    /\ Returned
    /\ sample_count = 0
    /\ pcPath' = "done"
    /\ UNCHANGED <<schedVars, sceneVars, unitVars, world, background, depth, call_depth, frames,
                   value, outcomes, hits, sample_count, samples, sampled, pixel_color, average>>

\* ray_color(ray, background, world, depth) for any world and any depth.
InitPath ==
    /\ SchedulerIdle
    /\ SceneIdle
    /\ UnitIdle
    /\ world = [kind |-> "any", emit |-> Black]
    /\ background \in Backgrounds
    /\ depth \in 0 .. MaxDepth
    /\ call_depth = depth
    /\ frames = <<>>
    /\ value = <<>>
    /\ outcomes = <<>>
    /\ hits = 0
    /\ sample_count = 0
    /\ samples = 0
    /\ sampled = <<>>
    /\ pixel_color = Black
    /\ average = <<>>
    /\ pcPath = "call"

RayColorStep ==
    \/ RayColorBlack
    \/ RayColorMiss
    \/ RayColorEmitted
    \/ RayColorScatter
    \/ RayColorReturn
    \/ RayColorDone

NextPath ==
    \/ RayColorBlack
    \/ RayColorMiss
    \/ RayColorEmitted
    \/ RayColorScatter
    \/ RayColorReturn
    \/ RayColorDone

\* The call runs on: nothing in ray_color waits for anything.
PathSpec == InitPath /\ [][NextPath]_vars /\ WF_vars(RayColorStep)

(***************************************************************************)
(* The pixel loop of a tile task (render, lines 445-455) in a world that   *)
(* holds one DiffuseLight rectangle and nothing else: every sample calls   *)
(* ray_color, the colours are summed and the sum is multiplied by          *)
(* scale = 1.0 / sample_count in f32.  The pixel stored is the square root *)
(* of that product.                                                        *)
(***************************************************************************)
\* Line 446: a sample's ray is handed to ray_color.
SampleRay ==
    /\ pcPath = "pixel"
    /\ samples < sample_count
    /\ call_depth' = depth
    /\ value' = <<>>
    /\ outcomes' = <<>>
    /\ hits' = 0
    /\ pcPath' = "call"
    /\ UNCHANGED <<schedVars, sceneVars, unitVars, world, background, depth, frames,
                   sample_count, samples, sampled, pixel_color, average>>

\* Line 450: pixel_color += ray_color(...).
SampleAdd ==
    /\ Returned
    /\ sample_count # 0
    /\ pixel_color' = VecAdd(pixel_color, value)
    /\ sampled' = Append(sampled, value)
    /\ samples' = samples + 1
    /\ pcPath' = "pixel"
    /\ UNCHANGED <<schedVars, sceneVars, unitVars, world, background, depth, call_depth, frames,
                   value, outcomes, hits, sample_count, average>>

\* A scale of one sample too many.
ScaleOffByOne == F32Div(1, sample_count + 1)

\* Line 405: scale = 1.0 / sample_count as f32.
Scale == F32Div(1, sample_count)

\* Lines 453-455: pixel_color * scale, the argument of sqrt.
PixelAverage ==
    /\ pcPath = "pixel"
    /\ samples = sample_count
    /\ average' = [c \in 1 .. 3 |-> F32MulInt(Scale, pixel_color[c])]
    /\ pcPath' = "done"
    /\ UNCHANGED <<schedVars, sceneVars, unitVars, world, background, depth, call_depth, frames,
                   value, outcomes, hits, sample_count, samples, sampled, pixel_color>>

InitLight ==
    /\ SchedulerIdle
    /\ SceneIdle
    /\ UnitIdle
    /\ \E emit \in LightColors : world = [kind |-> "light", emit |-> emit]
    /\ background \in Backgrounds
    /\ depth \in 1 .. MaxDepth
    /\ call_depth = 0
    /\ frames = <<>>
    /\ value = <<>>
    /\ outcomes = <<>>
    /\ hits = 0
    /\ sample_count \in 1 .. MaxSamples
    /\ samples = 0
    /\ sampled = <<>>
    /\ pixel_color = Black
    /\ average = <<>>
    /\ pcPath = "pixel"

NextLight ==
    \/ SampleRay
    \/ RayColorMiss
    \/ RayColorEmitted
    \/ SampleAdd
    \/ PixelAverage

LightSpec == InitLight /\ [][NextLight]_vars

(***************************************************************************)
(* Vocabulary of the claims.                                               *)
(***************************************************************************)
\* The tasks of the batch dispatched last.
Current == {id \in TaskIds : tasks[id].batch = batch}
\* The tasks of earlier batches.
Stale == {id \in TaskIds : tasks[id].batch < batch}
\* A task has completed its counter update.
Counted(id) == tasks[id].pc \in {"sending", "done"}
\* The tiles in the channel, as task ids.
Queued == {chan[i].task : i \in 1 .. Len(chan)}
Occurrences(id) == Cardinality({i \in 1 .. Len(chan) : chan[i].task = id})
\* The pixels a tile covers once uploaded at (x * tile_size, y * tile_size).
Pixels(id) ==
    LET t == TileOf(id)
    IN  (t.x * tile_size .. t.x * tile_size + t.width - 1)
            \X (t.y * tile_size .. t.y * tile_size + t.height - 1)
FramePixels == (0 .. texture_size[1] - 1) \X (0 .. texture_size[2] - 1)

(***************************************************************************)
(* C1: with no resize, once all N tasks of the batch have completed their  *)
(* counter update (and before the loop resets the counter), tile_counter   *)
(* equals N = tile_x_count * tile_y_count.                                 *)
(***************************************************************************)
C1_CounterCountsEveryTile ==
    (/\ batch = 1
     /\ \A id \in TaskIds : Counted(id)
     /\ reported = 0
     /\ pcMain # "report")
        => tile_counter = TileTotal

(***************************************************************************)
(* C2: the tile rectangles dispatched for a width x height frame cover     *)
(* every pixel of the frame exactly once and no tile reaches past the      *)
(* frame.                                                                  *)
(***************************************************************************)
C2_TilesPartitionFrame ==
    pcMain = "check" =>
        /\ \A p \in FramePixels : Cardinality({id \in TaskIds : p \in Pixels(id)}) = 1
        /\ \A id \in TaskIds : Pixels(id) \subseteq FramePixels

(***************************************************************************)
(* C3: for one batch (no resize, no panic, the window stays open), once    *)
(* all tasks have completed their counter update the loop reports the      *)
(* frame, and it reports it once.                                          *)
(***************************************************************************)
C3_FrameReportedOnce ==
    /\ (batch = 1 /\ \A id \in TaskIds : Counted(id))
           ~> (reported = 1 \/ should_close \/ batch > 1)
    /\ [](batch = 1 => reported <= 1)

(***************************************************************************)
(* C4: once a new batch is dispatched, every unfinished task of an earlier *)
(* batch has been asked to abort.                                          *)
(***************************************************************************)
C4_StaleTasksAborted ==
    \A id \in Stale : tasks[id].pc \in {"done", "panicked"} \/ tasks[id].abort

(***************************************************************************)
(* C5: a tile of an earlier batch is never uploaded into the texture of    *)
(* the current resolution, and a task of an earlier batch never changes    *)
(* tile_counter.                                                           *)
(***************************************************************************)
C5_StaleTileDiscarded ==
    [][/\ \A id \in merged' : tasks'[id].batch = batch'
       /\ \A id \in Stale :
             (tasks[id].pc = "loaded" /\ tasks'[id].pc = "sending")
                 => tile_counter' = tile_counter]_vars

(***************************************************************************)
(* C6: a task that has finished has sent its tile exactly once, unchanged; *)
(* a sent tile is in the channel or has been received, never both and      *)
(* never twice; and while the loop runs every sent tile is eventually      *)
(* received and uploaded, also when more tiles are produced than the       *)
(* channel holds.                                                          *)
(***************************************************************************)
C6_SentOnceHeldOnce ==
    /\ Len(chan) <= ChannelCapacity
    /\ \A i \in 1 .. Len(chan) : chan[i] = TileOf(chan[i].task)
    /\ \A id \in TaskIds :
          Occurrences(id) + (IF id \in received THEN 1 ELSE 0)
              = (IF tasks[id].pc = "done" THEN 1 ELSE 0)

C6_TilesDeliveredOnce ==
    /\ []C6_SentOnceHeldOnce
    /\ \A i \in TaskSlots :
          (i \in TaskIds /\ tasks[i].pc = "done") ~> (i \in received \/ pcMain = "exited")

\* More tiles than the channel holds were produced and all were received.
C6_Witness ==
    /\ Cardinality(TaskIds) > ChannelCapacity
    /\ received = TaskIds
    /\ chan = <<>>

(***************************************************************************)
(* C7 as claimed: every tile queued when the refresh polls is taken during *)
(* that refresh.                                                           *)
(***************************************************************************)
C7_RefreshDrainsQueue == refresh.taken = refresh.queued

(***************************************************************************)
(* C7 as amended: the refresh polls once without blocking; it takes and    *)
(* uploads the oldest queued tile only, the others stay queued; with an    *)
(* empty channel it takes nothing and the texture is unchanged.            *)
(***************************************************************************)
C7_RefreshTakesOldestOnly ==
    /\ refresh.taken = (IF refresh.queued = 0 THEN 0 ELSE 1)
    /\ refresh.taken = 0 => ~refresh.changed
    /\ pcMain = "check" => Len(chan) >= refresh.queued - refresh.taken
    /\ pcMain = "recv" => ENABLED CoordRecv

C7_Witness ==
    /\ pcMain = "check"
    /\ refresh.queued >= 2
    /\ refresh.taken = 1
    /\ Len(chan) >= 1

(***************************************************************************)
(* C8: while a task of the current batch has not completed (it may stall   *)
(* there for ever), tile_counter differs from N and the frame has not been *)
(* reported.                                                               *)
(***************************************************************************)
C8_StalledBatchNotReported ==
    (\E id \in Current : ~Counted(id))
        => (tile_counter # TileTotal /\ reported = 0)

(***************************************************************************)
(* C9: a panic of one tile task leaves its tile out and nothing else: the  *)
(* tile of a panicked task is never sent; no second task is spawned for    *)
(* its tile; the loop only ends when the window is closed; and every task  *)
(* that does not panic itself gets its tile received and uploaded.         *)
(***************************************************************************)
C9_PanicIsLocal ==
    /\ \A id \in Panicked : id \notin Queued /\ id \notin received
    /\ \A id, other \in TaskIds :
          (tasks[id].batch = tasks[other].batch /\ tasks[id].x = tasks[other].x
              /\ tasks[id].y = tasks[other].y) => id = other
    /\ pcMain = "exited" => should_close

C9_OtherTilesArrive ==
    /\ []C9_PanicIsLocal
    /\ \A i \in TaskSlots :
          (i \in TaskIds /\ Panicked # {} /\ i \notin Panicked)
              ~> (i \in received \/ i \in Panicked \/ pcMain = "exited")

C9_Witness ==
    /\ Panicked # {}
    /\ \E id \in Current \ Panicked : id \in merged
    /\ \A id \in Current \ Panicked : id \in received

ObjectHit(i) == RectHit(objects[i], i, query.ray, query.time_min, query.time_max)
\* The objects the ray hits in the interval, and those it hits first.
HitObjects == {i \in 1 .. Len(objects) : ObjectHit(i) # None}
ClosestObjects ==
    {i \in HitObjects : \A j \in HitObjects : ObjectHit(i)[1].t <= ObjectHit(j)[1].t}
\* One object is hit first, strictly inside the interval.
UniqueInnerHit ==
    /\ Cardinality(ClosestObjects) = 1
    /\ \A i \in ClosestObjects :
          query.time_min < ObjectHit(i)[1].t /\ ObjectHit(i)[1].t < query.time_max

C11_DepthZeroIsBlack ==
    (depth = 0 /\ pcPath \in {"return", "done"})
        => (value = <<0, 0, 0>> /\ hits = 0 /\ outcomes = <<>>)

C11_Witness == depth = 0 /\ pcPath = "done" /\ background # <<0, 0, 0>>

\* ray_color as the claim C12 gives it, on the recorded outcomes from
\* call i on.
RECURSIVE ClaimedColor(_, _)
ClaimedColor(i, d) ==
    IF d = 0 THEN <<0, 0, 0>>
    ELSE IF outcomes[i].kind = "miss" THEN background
    ELSE IF outcomes[i].kind = "emitted" THEN outcomes[i].emitted
    ELSE [c \in 1 .. 3 |->
            outcomes[i].emitted[c] + outcomes[i].attenuation[c] * ClaimedColor(i + 1, d - 1)[c]]

(***************************************************************************)
(* C12: for depth >= 1 ray_color returns the background on a miss, the     *)
(* emitted colour when the material does not scatter, and otherwise        *)
(* emitted + attenuation * ray_color(scattered, depth - 1), component by   *)
(* component.                                                              *)
(***************************************************************************)
C12_RayColorRecurrence ==
    (pcPath = "done" /\ depth >= 1) => value = ClaimedColor(1, depth)

C12_Witness ==
    /\ pcPath = "done"
    /\ Len(outcomes) >= 3
    /\ outcomes[Len(outcomes)].kind = "emitted"
    /\ outcomes[1].attenuation = <<2, 0, 1>>
    /\ value[1] >= 3

(***************************************************************************)
(* C20: ray_color terminates; a call of depth d intersects the world at    *)
(* most d times and nests at most d calls, the depth argument going down   *)
(* by 1 with each nested call.                                             *)
(***************************************************************************)
C20_DepthBoundsWork ==
    /\ hits <= depth
    /\ Len(frames) <= depth
    /\ call_depth = depth - Len(frames)

C20_RayColorTerminates ==
    /\ []C20_DepthBoundsWork
    /\ <>(pcPath = "done")

C20_Witness ==
    /\ pcPath = "done"
    /\ depth = MaxDepth
    /\ hits = depth
    /\ Len(outcomes) = depth
    /\ outcomes[depth].kind = "scatter"

\* The f32 f is the whole number c.
F32IsInt(f, c) == f.n = c * Pow2(f.k)

\* Every sample of the pixel returned colour.
AllSampled(colour) == \A i \in 1 .. Len(sampled) : sampled[i] = colour

(***************************************************************************)
(* C13: in a world of one DiffuseLight rectangle ray_color (depth >= 1)    *)
(* returns the light's colour for a ray that hits it and the background    *)
(* for a ray that misses, and the average of any number of samples that    *)
(* all hit (all miss) is that colour.                                      *)
(***************************************************************************)
C13_LightAverageIsColour ==
    /\ \A i \in 1 .. Len(sampled) : sampled[i] \in {world.emit, background}
    /\ pcPath = "done" =>
          \A colour \in {world.emit, background} :
              AllSampled(colour) => \A c \in 1 .. 3 : F32IsInt(average[c], colour[c])

(***************************************************************************)
(* C13 as amended: each such ray gives exactly the light's colour or the   *)
(* background, the sum of n samples of one colour is n times it, and the   *)
(* average pixel_color * (1.0 / n) is that colour when n is a power of     *)
(* two (1.0 / n is exact); for other n the product is rounded.             *)
(***************************************************************************)
C13_LightAverageOfPowerOfTwo ==
    /\ \A i \in 1 .. Len(sampled) : sampled[i] \in {world.emit, background}
    /\ \A colour \in {world.emit, background} :
          AllSampled(colour) => \A c \in 1 .. 3 : pixel_color[c] = samples * colour[c]
    /\ (pcPath = "done" /\ \E k \in 0 .. MaxSamples : sample_count = Pow2(k)) =>
          \A colour \in {world.emit, background} :
              AllSampled(colour) => \A c \in 1 .. 3 : F32IsInt(average[c], colour[c])

C13_Witness ==
    /\ pcPath = "done"
    /\ sample_count = 4
    /\ AllSampled(world.emit)
    /\ world.emit # background
    /\ \A c \in 1 .. 3 : F32IsInt(average[c], world.emit[c])


\* Box inner lies within box outer on every axis.
Contains(outer, inner) ==
    \A a \in Axes : /\ outer.minimum[a] <= inner.minimum[a]
                    /\ inner.maximum[a] <= outer.maximum[a]

\* C15: for boxes A and B with minimum <= maximum on each axis,
\* surrounding_box(A, B) contains A and B, its minimum is the smaller of the
\* two minima and its maximum the larger of the two maxima on every axis, so
\* every box that contains both contains it; its minimum is <= its maximum,
\* surrounding_box(B, A) is the same box and surrounding_box(A, A) is A.
C15_SurroundingBoxIsLeastCover ==
    pcBox = "surrounded" =>
        /\ Contains(surrounding, box_a)
        /\ Contains(surrounding, box_b)
        /\ \A a \in Axes :
              /\ surrounding.minimum[a] = Min(box_a.minimum[a], box_b.minimum[a])
              /\ surrounding.maximum[a] = Max(box_a.maximum[a], box_b.maximum[a])
              /\ surrounding.minimum[a] <= surrounding.maximum[a]
        /\ \A other \in Boxes :
              Contains(other, box_a) /\ Contains(other, box_b)
                  => Contains(other, surrounding)
        /\ SurroundingBox(box_b, box_a) = surrounding
        /\ SurroundingBox(box_a, box_a) = box_a
        /\ SurroundingBox(surrounding, surrounding) = surrounding

\* Two boxes neither of which contains the other have been surrounded.
C15_Witness ==
    /\ pcBox = "surrounded"
    /\ ~Contains(box_a, box_b)
    /\ ~Contains(box_b, box_a)
    /\ surrounding # box_a
    /\ surrounding # box_b

\* C16 as stated: a call of Aabb::hit that returns false still returns false
\* when the interval is widened.
C16_MissSurvivesWidening ==
    pcBox = "probed" => (~probe_hit.narrow => ~probe_hit.wide)

\* C16: a call of Aabb::hit that returns false still returns false when the
\* interval is narrowed, that is, a hit in an interval is a hit in every
\* interval that contains it.
C16_MissSurvivesNarrowing ==
    pcBox = "probed" => (~probe_hit.wide => ~probe_hit.narrow)

\* The ray crosses the box within the narrow interval, which was strictly
\* widened at both ends.
C16_Witness ==
    /\ pcBox = "probed"
    /\ probe_hit.narrow
    /\ probe.wide_min < probe.time_min
    /\ probe.time_max < probe.wide_max

\* C18: BvhNode::new on an empty list of objects panics: the call returns no
\* BvhNode, and no call of new other than the outermost one was entered; a
\* non-empty list never reaches the panic through its halves.
C18_EmptyListPanics ==
    /\ (objects = <<>> /\ pcScene \notin {"idle", "objects"}) =>
            /\ pcScene = "panicked"
            /\ bvh = <<>>
            /\ new_calls = 1
    /\ pcScene = "panicked" => objects = <<>>

\* BvhNode::new was called on the empty list.
C18_Witness == pcScene = "panicked" /\ objects = <<>> /\ new_calls = 1

\* The sphere of radius r at the origin and the ray from (0,0,5) along
\* (0,0,-1), for 0 < r < 5.
C19_Case ==
    /\ pcSphere = "done"
    /\ sphere.center = <<0, 0, 0>>
    /\ sphere.radius > 0
    /\ sphere.radius < 5 * Milli
    /\ sphere_ray = [origin |-> <<0, 0, 5 * Milli>>, direction |-> <<0, 0, -1>>]

\* The hit record has normal (0,0,1) and front_face = true.
C19_FrontNormal ==
    /\ sphere_hit # None
    /\ sphere_hit[1].normal.num = <<0, 0, sphere_hit[1].normal.den>>
    /\ sphere_hit[1].front_face

\* C19 as stated: the hit is at t = 4 for every radius.
C19_HitAtFour ==
    C19_Case => sphere_hit # None /\ sphere_hit[1].t = 4 * Milli /\ C19_FrontNormal

\* C19: for the sphere of radius r at the origin and the ray from (0,0,5)
\* along (0,0,-1), Sphere::hit over (0.001, +inf) reports a hit with
\* t = 5 - r, which is 4 for r = 1, normal (0,0,1) and front_face = true.
C19_HitAtFiveMinusRadius ==
    C19_Case =>
        /\ C19_FrontNormal
        /\ sphere_hit[1].t = 5 * Milli - sphere.radius
        /\ sphere.radius = Milli => sphere_hit[1].t = 4 * Milli

\* The call of the claim was made for radius 1 and for another radius.
C19_Witness == C19_Case /\ sphere.radius = 3 * Milli /\ sphere_hit # None

\* The directions num / den of two rays are the same vector.
SameDirection(a, b) == \A x \in Axes : a.num[x] * b.den = b.num[x] * a.den

\* ray.direction().normalize().
UnitDirection(r) == [num |-> r.direction, den |-> r.length]

\* C17: a Dielectric of index of refraction 1.0 scatters every valid hit,
\* whatever the face, the angle and the random draw, with attenuation
\* (1,1,1) into the normalised incoming direction, and never reflects.
C17_IndexOneGoesStraight ==
    (pcDielectric = "done" /\ dielectric = [num |-> 1, den |-> 1]) =>
        /\ scattered.attenuation = <<1, 1, 1>>
        /\ scattered.branch = "refract"
        /\ SameDirection(scattered.direction, UnitDirection(scatter_ray))

\* What the code does at index 1.0: the refraction branch leaves the
\* direction alone, and the reflection branch is taken exactly when
\* (1 - cos_theta)^5 exceeds the random draw.
C17_IndexOneReflectsBySchlick ==
    (pcDielectric = "done" /\ dielectric = [num |-> 1, den |-> 1]) =>
        LET cos_theta == CosTheta(scatter_ray.direction, scatter_hit.normal)
        IN  /\ scattered.attenuation = <<1, 1, 1>>
            /\ scattered.branch = "reflect"
                  <=> Power5(Fifth - cos_theta) * RandomSteps > gen * Power5(Fifth)
            /\ scattered.branch = "refract"
                  => SameDirection(scattered.direction, UnitDirection(scatter_ray))

\* Both renders have computed every tile.
BothRendered ==
    /\ pcRng = "render"
    /\ \A run \in Runs, tile \in 1 .. RngTiles : tile_thread[run][tile] # 0

\* C14: two renders of the same scene, resolution, sample count and depth
\* whose generators have the same seeds produce the same pixels for every
\* tile, in whatever order and on whatever worker the tile tasks run.
C14_SameSeedSamePixels ==
    (BothRendered /\ rng_seed[1] = rng_seed[2])
        => \A tile \in 1 .. RngTiles : tile_pixels[1][tile] = tile_pixels[2][tile]

\* C14, its reason: no generator serves two tile tasks.
C14_OwnGeneratorPerTile ==
    pcRng = "render" =>
        \A run \in Runs, thread \in 1 .. Workers :
            rng_drawn[run][thread] <= DrawsPerTile

\* The times at which the ray is within the slab of axis a of the box:
\* time_start and time_end of Aabb::hit after the swap.
SlabTimes(box, r, a) ==
    LET t0 == (box.minimum[a] - r.origin[a]) * r.direction[a]
        t1 == (box.maximum[a] - r.origin[a]) * r.direction[a]
    IN  [start |-> Min(t0, t1), end |-> Max(t0, t1)]

\* C21: Aabb::hit returns true only if some t of the query interval lies in
\* the slab intervals of all three axes at once, that is, only if the
\* intersection of the three slab intervals with the query interval is not
\* empty.
C21_HitMeansCommonTime ==
    (pcBox = "probed" /\ probe_hit.narrow) =>
        \E a \in Axes, b \in Axes :
            /\ \A x \in Axes : SlabTimes(box_a, probe.ray, x).start
                                   <= SlabTimes(box_a, probe.ray, a).start
            /\ \A x \in Axes : SlabTimes(box_a, probe.ray, b).end
                                   <= SlabTimes(box_a, probe.ray, x).end
            /\ Max(SlabTimes(box_a, probe.ray, a).start, probe.time_min)
                  <= Min(SlabTimes(box_a, probe.ray, b).end, probe.time_max)

\* The objects under a node of the tree, left to right.
RECURSIVE Leaves(_)
Leaves(node) ==
    IF "leaf" \in DOMAIN node THEN <<node.leaf>>
    ELSE Leaves(node.left) \o Leaves(node.right)

\* The nodes of the tree under a node, itself included.
RECURSIVE Nodes(_)
Nodes(node) ==
    IF "leaf" \in DOMAIN node THEN {node}
    ELSE {node} \cup Nodes(node.left) \cup Nodes(node.right)

Branches == {node \in Nodes(bvh) : "leaf" \notin DOMAIN node}

\* The extent on an axis of the boxes of the objects under a node: the
\* largest maximum minus the smallest minimum.
Extent(node, axis) ==
    LET ids == Leaves(node)
        boxes == {RectBoundingBox(objects[ids[i]]) : i \in 1 .. Len(ids)}
    IN  (CHOOSE m \in {b.maximum[axis] : b \in boxes} :
            \A b \in boxes : b.maximum[axis] <= m)
        - (CHOOSE m \in {b.minimum[axis] : b \in boxes} :
            \A b \in boxes : m <= b.minimum[axis])

\* On the axis of the node, no midpoint of the left half is above a
\* midpoint of the right half.
SplitIsSorted(node) ==
    LET left == Leaves(node.left)
        right == Leaves(node.right)
    IN  \A i \in 1 .. Len(left), j \in 1 .. Len(right) :
            BoxCompareKey(objects[left[i]], node.axis)
                <= BoxCompareKey(objects[right[j]], node.axis)

\* C22 as stated: the split axis of every Branch is an axis on which the
\* spread of the centres of the objects' boxes is greatest, and the objects
\* are split in the order of their midpoints on it.
C22_SplitOnGreatestCentreSpread ==
    pcScene = "built" =>
        \A node \in Branches :
            /\ \A other \in Axes :
                  CentreSpread(objects, Leaves(node), other)
                      <= CentreSpread(objects, Leaves(node), node.axis)
            /\ SplitIsSorted(node)

\* C22: the split axis of every Branch is an axis on which the extent of
\* the objects' boxes, largest maximum minus smallest minimum, is greatest,
\* and the objects are split in the order of their midpoints on that axis:
\* no midpoint of the left half is above one of the right half.
C22_SplitOnGreatestExtent ==
    pcScene = "built" =>
        \A node \in Branches :
            /\ \A other \in Axes : Extent(node, other) <= Extent(node, node.axis)
            /\ SplitIsSorted(node)

\* A tree was built of two objects whose midpoints differ on the split
\* axis, an axis on which the centres are not spread the most.
C22_Witness ==
    /\ pcScene = "built"
    /\ Branches # {}
    /\ BoxCompareKey(objects[Leaves(bvh)[1]], bvh.axis)
          < BoxCompareKey(objects[Leaves(bvh)[Len(objects)]], bvh.axis)
    /\ \E other \in Axes :
          CentreSpread(objects, Leaves(bvh), other)
              > CentreSpread(objects, Leaves(bvh), bvh.axis)

\* The smallest t at which the ray hits an object in the interval.
ClosestTimes == {ObjectHit(i)[1].t : i \in ClosestObjects}

BoundaryEntry == SphereHit(sphere, sphere_ray, -Infinity, Infinity)

BoundaryExit == SphereHit(sphere, sphere_ray, BoundaryEntry[1].t + MediumStep, Infinity)

ChildHit ==
    SphereHit(sphere, MovedRay(sphere_ray, wrap.displacement), wrap.time_min, wrap.time_max)

\* C28: a hit reported through Translation(child, d) is the child's hit for
\* the ray with its origin shifted by -d, with the point shifted by +d: t,
\* normal and front_face are those of the child's hit, a back-face hit of
\* the child stays a back-face hit, and the bounding box is the child's box
\* shifted by d.
C28_TranslationHitIsChildHit ==
    (pcWrap = "done" /\ wrap.kind = "translation") =>
        /\ (wrap_hit = None) <=> (ChildHit = None)
        /\ wrap_hit # None =>
              /\ wrap_hit[1].t = ChildHit[1].t
              /\ wrap_hit[1].normal = ChildHit[1].normal
              /\ wrap_hit[1].front_face = ChildHit[1].front_face
              /\ wrap_hit[1].point =
                    [a \in Axes |-> ChildHit[1].point[a] + wrap.displacement[a]]
        /\ wrap_box =
              [minimum |-> [a \in Axes |-> SphereBoundingBox(sphere).minimum[a]
                                              + wrap.displacement[a]],
               maximum |-> [a \in Axes |-> SphereBoundingBox(sphere).maximum[a]
                                              + wrap.displacement[a]]]

\* C26: the tree built of a non-empty list of n objects has n leaves, every
\* object under exactly one of them; at every Branch of k objects the left
\* subtree holds floor(k/2) and the right subtree ceil(k/2) of them, both at
\* least one.
C26_EveryObjectInOneLeaf ==
    pcScene = "built" =>
        /\ Len(Leaves(bvh)) = Len(objects)
        /\ \A id \in 1 .. Len(objects) :
              Cardinality({i \in 1 .. Len(Leaves(bvh)) : Leaves(bvh)[i] = id}) = 1
        /\ \A node \in Branches :
              LET k == Len(Leaves(node))
              IN  /\ Len(Leaves(node.left)) = k \div 2
                  /\ Len(Leaves(node.right)) = k - k \div 2
                  /\ Len(Leaves(node.left)) >= 1
                  /\ Len(Leaves(node.right)) >= 1

\* A tree of three objects: one under the left subtree of the root, two
\* under the Branch to its right.
C26_Witness ==
    /\ pcScene = "built"
    /\ Len(objects) = 3
    /\ "leaf" \in DOMAIN bvh.left
    /\ "leaf" \notin DOMAIN bvh.right
    /\ Len(Leaves(bvh.right)) = 2

\* C27: in the built tree the box of a Leaf is the box of its object, the
\* box of a Branch is the surrounding_box of the boxes of its two children,
\* and the box of every node contains the box of every object under it.
C27_NodeBoxContainsSubtree ==
    pcScene = "built" =>
        \A node \in Nodes(bvh) :
            /\ "leaf" \in DOMAIN node =>
                  node.bounding_box = RectBoundingBox(objects[node.leaf])
            /\ "leaf" \notin DOMAIN node =>
                  node.bounding_box =
                      SurroundingBox(node.left.bounding_box, node.right.bounding_box)
            /\ \A i \in 1 .. Len(Leaves(node)) :
                  Contains(node.bounding_box, RectBoundingBox(objects[Leaves(node)[i]]))

\* A tree of three objects whose root box is the box of none of its
\* children, the right child being a Branch.
C27_Witness ==
    /\ pcScene = "built"
    /\ Len(objects) = 3
    /\ "leaf" \notin DOMAIN bvh.right
    /\ bvh.bounding_box # bvh.left.bounding_box
    /\ bvh.bounding_box # bvh.right.bounding_box
    /\ bvh.right.bounding_box # bvh.right.left.bounding_box

\* The smallest minimum and the largest maximum, axis by axis, of the
\* boxes of the children.
Envelope ==
    LET boxes == {children[i][1] : i \in 1 .. Len(children)}
    IN  [minimum |-> [a \in Axes |->
                        CHOOSE m \in {b.minimum[a] : b \in boxes} :
                            \A b \in boxes : m <= b.minimum[a]],
         maximum |-> [a \in Axes |->
                        CHOOSE m \in {b.maximum[a] : b \in boxes} :
                            \A b \in boxes : b.maximum[a] <= m]]

\* The children in another order.
Reorderings ==
    {[i \in 1 .. Len(children) |-> children[order[i]]] :
        order \in {f \in [1 .. Len(children) -> 1 .. Len(children)] :
                     \A i \in 1 .. Len(children) : \E j \in 1 .. Len(children) : f[j] = i}}

\* C25: List::bounding_box returns none when the list is empty or when a
\* child, the first or a later one, has no bounding box; otherwise it
\* returns the component-wise min/max envelope of the boxes of all children,
\* whatever the order of the children.
C25_EnvelopeOrNone ==
    pcEnvelope = "done" =>
        /\ (Len(children) = 0 \/ \E i \in 1 .. Len(children) : children[i] = None)
              => list_box = None
        /\ (Len(children) > 0 /\ \A i \in 1 .. Len(children) : children[i] # None)
              => list_box = Some(Envelope)
        /\ \A reordered \in Reorderings : ListBoundingBox(reordered) = list_box

\* Three children with boxes, the envelope being the box of none of them.
C25_Witness ==
    /\ pcEnvelope = "done"
    /\ Len(children) = 3
    /\ list_box # None
    /\ \A i \in 1 .. 3 : children[i] # None /\ children[i] # list_box

\* C30: whenever the loop of run() has found tile_counter equal to the tile
\* count and reports the frame, every tile of the batch has been handed to
\* the channel: no task of the batch is still before or in its send.
C30_ReportedTilesWereSent ==
    pcMain = "report" => \A id \in Current : tasks[id].pc = "done"

====
